---- MODULE Spec2Model ----
(***************************************************************************)
(* profi: scope profiler.  Model of the crate built from                   *)
(*   src/src/measure.rs          (GlobalProfiler, ThreadProfiler)          *)
(*   src/src/process.rs          (into_tree, print_timings)                *)
(*   src/profi/src/zz_private.rs (Guard, ProfiDrop, drop_threads,          *)
(*                                block_until_exited, print_timings_to)    *)
(*   src/profi/src/lib.rs        (print_on_exit!, prof!)                   *)
(* with feature "enable" on and feature "rayon" either on or off.          *)
(*                                                                         *)
(* Four specifications share the variables:                                *)
(*   Spec      the registry protocol: threads register, record, flush,     *)
(*             and the reporting thread drains and renders;                *)
(*   SpecGuard one thread creating and releasing guards;                   *)
(*   SpecTree  into_tree applied, event by event, to a bounded log;        *)
(*   SpecReport print_timings applied to a bounded shared list.            *)
(***************************************************************************)
EXTENDS Integers, Sequences, FiniteSets, TLC

\* ------------------------------------------------------------------ bounds
NumWorkers == 2
MaxGuards == 1
MaxGuardsSolo == 3
MaxReports == 2
MaxTime == 1
MaxLog == 5
MaxEvents == 6
MaxRenders == 2

MaxDirect == 1

\* usize::MAX, the value `*lock -= 1` wraps to at 0 without overflow checks
\* and `+= 1` wraps from.  TLC's integers are 32 bits wide: the value stands
\* for the largest usize, whatever the width, and arithmetic never goes
\* past it.
UsizeMax == 2147483647

Main == 0
Workers == 1..NumWorkers
Threads == {Main} \cup Workers
Names == {"a", "b"}
Deltas == {0, 1}
Gaps == {0, 2}
None == <<>>

VARIABLES
    rayon,        \* cfg(feature = "rayon")
    pool,         \* the workers that are threads of the rayon pool
    proc,         \* the process: "running", "exited", "panicked", "aborted"
    now,          \* minstant::Instant::now()
    threads,      \* GLOBAL_PROFILER.threads (the usize behind the Mutex)
    mutex,        \* holder of GLOBAL_PROFILER.threads' Mutex: {} or {t}
    poisoned,     \* the poisoned locks among "threads" and "measures"
    gmeasures,    \* GLOBAL_PROFILER.measures, with the flushing thread noted
    woken,        \* a notify_one of GLOBAL_PROFILER.cvar reached the waiter
    pc,           \* where each thread is
    tls,          \* THREAD_PROFILER of each thread: "uninit" or "alive"
    tmeasures,    \* ThreadProfiler.measures
    thread_start, \* ThreadProfiler.thread_start
    thread_time,  \* ThreadProfiler.thread_time: None or <<d>>
    guards,       \* live Guards of each thread, oldest first: the index of
                  \* each one's Start in tmeasures when it was pushed
    budget,       \* guards each thread may still create
    reports,      \* print_on_exit! scopes entered so far
    bcast,        \* pool threads that still owe the rayon::broadcast closure
    bpanic,       \* a broadcast closure panicked
    out,          \* what print_timings has written to the sink
    regs,         \* history: ThreadProfiler::new calls per thread
    decs,         \* history: `*lock -= 1` executions per thread
    lifo,         \* history: every release so far took the youngest guard
    tb,           \* into_tree in progress (SpecTree)
    deep,         \* cfg(feature = "deep-hierarchy")
    rp,           \* print_timings_to: calls made, and of the last call the
                  \* result, whether the sink took the writes, total_app,
                  \* the `timings` map, the calling thread and (history)
                  \* the caller's own log at the call (SpecReport, SpecDirect)
    fmt           \* two tree nodes handed to to_timings and the `timings`
                  \* map print_timings builds of them (SpecFormat)

vars == <<rayon, pool, proc, now, threads, mutex, poisoned, gmeasures, woken,
          pc, tls, tmeasures, thread_start, thread_time, guards, budget,
          reports, bcast, bpanic, out, regs, decs, lifo, tb, deep, rp, fmt>>

\* --------------------------------------------------------------- helpers
Upd(f, t, v) == [f EXCEPT ![t] = v]

RECURSIVE SeqSum(_)
SeqSum(s) == IF s = <<>> THEN 0 ELSE s[1] + SeqSum(Tail(s))

Front(s) == SubSeq(s, 1, Len(s) - 1)

Last(s) == s[Len(s)]

RemoveAt(s, k) == SubSeq(s, 1, k - 1) \o SubSeq(s, k + 1, Len(s))

\* Measure { ty: Start { name }, time } and Measure { ty: End, time }
StartMeasure(name, time) == [ty |-> "Start", name |-> name, time |-> time]

EndMeasure(time) == [ty |-> "End", name |-> "", time |-> time]

\* minstant's duration_since saturates at zero.
DurationSince(later, earlier) == IF later >= earlier THEN later - earlier ELSE 0

\* ------------------------------------------------- process.rs: into_tree
\* The forest `tree: IndexMap<Str, Node>` with its nested `children`
\* IndexMaps is one function from index paths (the indices get_index_mut
\* walks, 0-based as in the code) to the node stored there; a node carries
\* the key it is stored under.
EmptyTree == <<>>

\* Node::new(depth), stored under key `name`
NewNode(name, depth) == [name |-> name, measures |-> <<>>, depth |-> depth]

\* the entries of the IndexMap at `parent` (<<>>: the root map)
ChildPaths(tree, parent) ==
    {q \in DOMAIN tree : Len(q) = Len(parent) + 1
                          /\ SubSeq(q, 1, Len(parent)) = parent}

\* IndexMap::len
MapLen(tree, parent) == Cardinality(ChildPaths(tree, parent))

\* IndexMap::get_index_of: {} for None, {i} for Some(i)
GetIndexOf(tree, parent, name) ==
    {q[Len(q)] : q \in {r \in ChildPaths(tree, parent) : tree[r].name = name}}

\* get_current: the path of the node found, None when current_path is empty
\* or an index on it is missing
get_current(current_path, tree) ==
    IF current_path # <<>> /\ current_path \in DOMAIN tree
    THEN current_path ELSE None

TreeInit ==
    [tree |-> EmptyTree, current_path |-> <<>>, start_times |-> <<>>,
     panicked |-> FALSE]

\* (faulty variant, for C26:) the Start arm inserting a node without looking the name up
StartArmAlwaysInserts(st, name, time) ==
    LET current == get_current(st.current_path, st.tree)
        depth == IF current = None THEN 0 ELSE st.tree[current].depth + 1
        idx == MapLen(st.tree, current)
    IN  [st EXCEPT
           !.start_times = Append(@, time),
           !.tree = (Append(current, idx) :> NewNode(name, depth)) @@ @,
           !.current_path = Append(@, idx)]

\* (faulty variant, for C37:) the Start arm entering a known child without
\* pushing its index
StartArmPushesNewOnly(st, name, time) ==
    LET current == get_current(st.current_path, st.tree)
        depth == IF current = None THEN 0 ELSE st.tree[current].depth + 1
        found == GetIndexOf(st.tree, current, name)
        idx == MapLen(st.tree, current)
    IN  [st EXCEPT
           !.start_times = Append(@, time),
           !.tree = IF found # {} THEN @
                    ELSE (Append(current, idx) :> NewNode(name, depth)) @@ @,
           !.current_path = IF found # {} THEN @ ELSE Append(@, idx)]

\* the MeasureType::Start arm
StartArm(st, name, time) ==
    LET current == get_current(st.current_path, st.tree)
        depth == IF current = None THEN 0 ELSE st.tree[current].depth + 1
        found == GetIndexOf(st.tree, current, name)
        idx == IF found # {} THEN CHOOSE i \in found : TRUE
               ELSE MapLen(st.tree, current)
    IN  [st EXCEPT
           !.start_times = Append(@, time),
           !.tree = IF found # {} THEN @
                    ELSE (Append(current, idx) :> NewNode(name, depth)) @@ @,
           !.current_path = Append(@, idx)]

\* (faulty variant, for C7:) the End arm with `current_path.pop()` left out
EndArmKeepsPath(st, time) ==
    LET current == get_current(st.current_path, st.tree)
    IN  IF current = None \/ st.start_times = <<>>
        THEN [st EXCEPT !.panicked = TRUE]
        ELSE [st EXCEPT
                !.tree = [@ EXCEPT ![current].measures =
                            Append(@, DurationSince(time, Last(st.start_times)))],
                !.start_times = Front(@)]

\* (faulty variant, for C9:) the End arm passing over an End that closes nothing
EndArmSkips(st, time) ==
    LET current == get_current(st.current_path, st.tree)
    IN  IF current = None \/ st.start_times = <<>>
        THEN st
        ELSE [st EXCEPT
                !.tree = [@ EXCEPT ![current].measures =
                            Append(@, DurationSince(time, Last(st.start_times)))],
                !.start_times = Front(@),
                !.current_path = Front(@)]

\* (faulty variant, for C27:) the End arm measuring from the oldest open Start
EndArmOldestStart(st, time) ==
    LET current == get_current(st.current_path, st.tree)
    IN  IF current = None \/ st.start_times = <<>>
        THEN [st EXCEPT !.panicked = TRUE]
        ELSE [st EXCEPT
                !.tree = [@ EXCEPT ![current].measures =
                            Append(@, DurationSince(time, st.start_times[1]))],
                !.start_times = Front(@),
                !.current_path = Front(@)]

\* the MeasureType::End arm: both `expect`s panic on None
EndArm(st, time) ==
    LET current == get_current(st.current_path, st.tree)
    IN  IF current = None \/ st.start_times = <<>>
        THEN [st EXCEPT !.panicked = TRUE]
        ELSE [st EXCEPT
                !.tree = [@ EXCEPT ![current].measures =
                            Append(@, DurationSince(time, Last(st.start_times)))],
                !.start_times = Front(@),
                !.current_path = Front(@)]

\* one turn of `for m in measures`
MeasureStep(st, m) ==
    IF m.ty = "Start" THEN StartArm(st, m.name, m.time) ELSE EndArm(st, m.time)

RECURSIVE RunFrom(_, _, _)
RunFrom(st, measures, i) ==
    IF i > Len(measures) \/ st.panicked THEN st
    ELSE RunFrom(MeasureStep(st, measures[i]), measures, i + 1)

RECURSIVE SumOver(_, _)
SumOver(tree, paths) ==
    IF paths = {} THEN 0
    ELSE LET p == CHOOSE q \in paths : TRUE
         IN  SeqSum(tree[p].measures) + SumOver(tree, paths \ {p})

\* (faulty variant, for C15:) the durations of all nodes added up
TotalAppAllNodes(tree) == SumOver(tree, DOMAIN tree)

\* (faulty variant, for C18:) the durations of the first root node only
TotalAppFirstRoot(tree) == SumOver(tree, {<<0>>} \cap DOMAIN tree)

\* "Get total app by adding all root nodes"
TotalApp(tree) == SumOver(tree, ChildPaths(tree, <<>>))

\* (faulty variant, for C10:) into_tree with a check, after the loop, that no scope is left open
AfterLoopStrict(st) ==
    [panicked |-> st.current_path # <<>>, total |-> TotalApp(st.tree)]

\* lines 273-276, after the loop: total_app is computed and (total_app, tree)
\* returned; nothing looks at what is left on current_path or start_times
AfterLoop(st) == [panicked |-> FALSE, total |-> TotalApp(st.tree)]

\* into_tree(measures): the returned (total_app, tree), or the panic
into_tree(measures) ==
    LET st == RunFrom(TreeInit, measures, 1)
        r == IF st.panicked THEN [panicked |-> TRUE, total |-> 0] ELSE AfterLoop(st)
    IN  [panicked |-> r.panicked, total |-> r.total, tree |-> st.tree]

\* ------------------------------------------- process.rs: print_timings
\* Durations are whole nanoseconds.  An f64 percentage is kept as the exact
\* quotient it rounds: "num" with numerator and denominator, or what IEEE
\* division gives on a zero denominator, "NaN" (0/0) and "inf" (x/0).
Pct(num, den) ==
    IF den # 0 THEN [kind |-> "num", num |-> num * 100, den |-> den]
    ELSE IF num = 0 THEN [kind |-> "NaN", num |-> 0, den |-> 1]
    ELSE [kind |-> "inf", num |-> 1, den |-> 1]

\* the literal 100.0
Pct100 == [kind |-> "num", num |-> 100, den |-> 1]

\* the characters of a scope name
Chars(name) ==
    CASE name = "a" -> <<"a">>
      [] name = "b" -> <<"b">>
      [] name = " a" -> <<" ", "a">>
      [] name = "(+20) a" -> <<"(", "+", "2", "0", ")", " ", "a">>
      [] OTHER -> <<"m", "a", "i", "n">>

\* str::len of a scope name
StrLen(name) == Len(Chars(name))

\* str::repeat
RECURSIVE Repeat(_, _)
Repeat(c, n) == IF n = 0 THEN <<>> ELSE Append(Repeat(c, n - 1), c)

\* the Display of a usize
RECURSIVE DecimalString(_)
DecimalString(n) ==
    LET digit == <<"0", "1", "2", "3", "4", "5", "6", "7", "8", "9">>[(n % 10) + 1]
    IN  IF n < 10 THEN <<digit>> ELSE Append(DecimalString(n \div 10), digit)

\* to_timings, lines 142-152: the string of `depth` spaces, or from depth 20
\* on of the marker "(+depth) " padded to 20 columns, followed by the name
FormattedName(name, depth) ==
    LET spaces ==
            IF depth >= 20
            THEN LET new == <<"(", "+">> \o DecimalString(depth) \o <<")", " ">>
                 IN  Repeat(" ", IF 20 > Len(new) THEN 20 - Len(new) ELSE 0) \o new
            ELSE Repeat(" ", depth)
    IN  spaces \o Chars(name)

\* formatted_name.len()
FormattedLen(f) == Len(f)

\* Timing::from_durations
from_durations(name, formatted_name, timings, total, thread) ==
    LET sum == SeqSum(timings)
        percent == IF total # 0 THEN Pct(sum, total) ELSE Pct100
        len == IF Len(timings) > 1 THEN Len(timings) ELSE 1
    IN  [name |-> name, formatted_name |-> formatted_name,
         percent_app |-> percent, total_real |-> sum,
         percent_cpu |-> percent, total_cpu |-> sum,
         average |-> sum \div len, calls |-> Len(timings), thread |-> thread]

\* (faulty variant, for C12:) merge adding up total_real across threads
mergeAddsReal(self, other) ==
    LET differ == self.thread # other.thread
    IN  [self EXCEPT
           !.formatted_name =
               IF FormattedLen(@) > FormattedLen(other.formatted_name)
               THEN other.formatted_name ELSE @,
           !.average = (@ + other.average) \div 2,
           !.calls = @ + other.calls,
           !.total_cpu = IF differ THEN @ + other.total_cpu ELSE @,
           !.total_real = IF differ THEN @ + other.total_real ELSE @]

\* (faulty variant, for C30:) merge adding the calls of other threads only
mergeCallsOfOtherThreads(self, other) ==
    LET differ == self.thread # other.thread
    IN  [self EXCEPT
           !.formatted_name =
               IF FormattedLen(@) > FormattedLen(other.formatted_name)
               THEN other.formatted_name ELSE @,
           !.average = (@ + other.average) \div 2,
           !.calls = IF differ THEN @ + other.calls ELSE @,
           !.total_cpu = IF differ THEN @ + other.total_cpu ELSE @,
           !.total_real = IF differ /\ other.total_real > @
                          THEN other.total_real ELSE @]

\* (faulty variant, for C17:) merge keeping the smaller total_real of two threads
mergeMinReal(self, other) ==
    LET differ == self.thread # other.thread
    IN  [self EXCEPT
           !.formatted_name =
               IF FormattedLen(@) > FormattedLen(other.formatted_name)
               THEN other.formatted_name ELSE @,
           !.average = (@ + other.average) \div 2,
           !.calls = @ + other.calls,
           !.total_cpu = IF differ THEN @ + other.total_cpu ELSE @,
           !.total_real = IF differ /\ other.total_real < @
                          THEN other.total_real ELSE @]

\* Timing::merge
merge(self, other) ==
    LET differ == self.thread # other.thread
    IN  [self EXCEPT
           !.formatted_name =
               IF FormattedLen(@) > FormattedLen(other.formatted_name)
               THEN other.formatted_name ELSE @,
           !.average = (@ + other.average) \div 2,
           !.calls = @ + other.calls,
           !.total_cpu = IF differ THEN @ + other.total_cpu ELSE @,
           !.total_real = IF differ /\ other.total_real > @
                          THEN other.total_real ELSE @]

\* (faulty variant, for C35:) percent_app taken from the CPU time of the record
update_percentOfCpu(self, total_app, total_cpu) ==
    [self EXCEPT !.percent_app = Pct(self.total_cpu, total_app),
                 !.percent_cpu = Pct(self.total_cpu, total_cpu)]

\* Timing::update_percent
update_percent(self, total_app, total_cpu) ==
    [self EXCEPT !.percent_app = Pct(self.total_real, total_app),
                 !.percent_cpu = Pct(self.total_cpu, total_cpu)]

\* Node::to_timings of the node at path p, whose key is its name: its own
\* Timing, then those of its children in the order of the IndexMap
RECURSIVE to_timings(_, _, _, _)
RECURSIVE ChildTimings(_, _, _, _, _)
to_timings(tree, p, total, thread) ==
    <<from_durations(tree[p].name, FormattedName(tree[p].name, tree[p].depth),
                     tree[p].measures, total, thread)>>
    \o ChildTimings(tree, p, 0, total, thread)

\* the flat_map over the entries k, k+1, ... of the IndexMap at p
ChildTimings(tree, p, k, total, thread) ==
    IF k >= MapLen(tree, p) THEN <<>>
    ELSE to_timings(tree, Append(p, k), total, thread)
         \o ChildTimings(tree, p, k + 1, total, thread)

\* (faulty variant, for C28:) the key under deep-hierarchy used in every build
TimingKeyDeep(timing) == timing.formatted_name

\* (faulty variant, for C11:) the key is the name under either policy
TimingKeyByName(timing) == timing.name

\* print_timings, lines 180-187: the key a Timing is merged under
TimingKey(timing) == IF deep THEN timing.formatted_name ELSE timing.name

\* (faulty variant, for C31:) a merge that moves the record to the end of the map
AddTimingMovesToEnd(timings, timing) ==
    LET hit == {i \in DOMAIN timings : TimingKey(timings[i]) = TimingKey(timing)}
    IN  IF hit # {}
        THEN LET i == CHOOSE k \in hit : TRUE
             IN  Append(RemoveAt(timings, i), merge(timings[i], timing))
        ELSE Append(timings, timing)

\* print_timings, lines 189-196: `timings` is an IndexMap, kept here as the
\* sequence of its values in insertion order
AddTiming(timings, timing) ==
    LET hit == {i \in DOMAIN timings : TimingKey(timings[i]) = TimingKey(timing)}
    IN  IF hit # {}
        THEN [timings EXCEPT ![CHOOSE i \in hit : TRUE] = merge(@, timing)]
        ELSE Append(timings, timing)

RECURSIVE AddTimings(_, _, _)
AddTimings(timings, new, j) ==
    IF j > Len(new) THEN timings
    ELSE AddTimings(AddTiming(timings, new[j]), new, j + 1)

\* print_timings, lines 173-198: the loop over the threads of the list, from
\* the i-th on; a panic of into_tree ends it
RECURSIVE ThreadsLoop(_, _, _)
ThreadsLoop(list, i, acc) ==
    IF i > Len(list) \/ acc.panicked THEN acc
    ELSE LET r == into_tree(list[i].events)
             total_app == IF r.total > acc.total_app THEN r.total ELSE acc.total_app
             new == ChildTimings(r.tree, <<>>, 0, r.total, i - 1)
         IN  IF r.panicked THEN [acc EXCEPT !.panicked = TRUE]
             ELSE ThreadsLoop(list, i + 1,
                     [acc EXCEPT !.total_app = total_app,
                                 !.timings = AddTimings(@, new, 1)])

RECURSIVE SumCpu(_)
SumCpu(timings) ==
    IF timings = <<>> THEN 0 ELSE timings[1].total_cpu + SumCpu(Tail(timings))

\* print_timings, lines 169-202: the timings the table is made of
Aggregate(list) ==
    LET acc == ThreadsLoop(list, 1, [panicked |-> FALSE, total_app |-> 0,
                                     timings |-> <<>>])
        total_cpu == SumCpu(acc.timings)
    IN  [acc EXCEPT !.timings =
            [i \in DOMAIN @ |-> update_percent(@[i], acc.total_app, total_cpu)]]

\* format!("{:.2}%", percent): two decimals, as hundredths of a percent,
\* rounded to nearest; NaN and inf are printed by name
FormatPercent(p) ==
    IF p.kind # "num" THEN [text |-> p.kind, hundredths |-> 0]
    ELSE [text |-> "%", hundredths |-> (2 * 100 * p.num + p.den) \div (2 * p.den)]

\* create_table, lines 83-117: the row of one Timing ("-" for a cell left
\* empty).  format!("{:.2?}", duration) of a duration below 1000 ns is that
\* number followed by ".00ns".
TableRow(timing) ==
    LET same == timing.total_real = timing.total_cpu
    IN  [name |-> timing.formatted_name,
         app_percent |-> FormatPercent(timing.percent_app),
         real_time |-> <<timing.total_real, "ns">>,
         cpu_percent |-> IF same THEN <<"-">> ELSE <<FormatPercent(timing.percent_cpu)>>,
         cpu_time |-> IF same THEN <<"-">> ELSE <<timing.total_cpu, "ns">>,
         average |-> IF timing.average = 0 \/ timing.calls <= 1 THEN <<"-">>
                     ELSE <<timing.average, "ns/call">>,
         calls |-> IF timing.calls = 0 THEN <<"-">> ELSE <<timing.calls>>]

create_table(timings) == [i \in DOMAIN timings |-> TableRow(timings[i])]

\* ------------------------------------------- the registry protocol (Spec)
Running == proc = "running"

\* ThreadProfiler::get_thread_time
get_thread_time(t) ==
    IF thread_time[t] # None THEN thread_time[t][1]
    ELSE DurationSince(now, thread_start[t])

\* Where a panic of thread t goes.  In the closure of rayon::broadcast it is
\* caught and handed to the broadcasting thread once every pool thread has
\* run the closure; in a thread-local destructor the runtime aborts the
\* process; on the main thread it ends the process; elsewhere it ends t.
PanicCtx(t) ==
    IF t \in bcast THEN "bcast"
    ELSE IF pc[t] \in {"md_flush", "md_lock", "md_dec"} THEN "dtor"
    ELSE IF t = Main THEN "main" ELSE "thread"

Panic(t) ==
    LET ctx == PanicCtx(t)
    IN  /\ pc' = Upd(pc, t, IF ctx = "bcast" THEN "run" ELSE "panicked")
        /\ proc' = IF ctx = "dtor" THEN "aborted"
                   ELSE IF ctx = "main" THEN "panicked" ELSE proc
        /\ bcast' = bcast \ {t}
        /\ bpanic' = (bpanic \/ ctx = "bcast")

Goto(t, p) ==
    /\ pc' = Upd(pc, t, p)
    /\ UNCHANGED <<proc, bcast, bpanic>>

\* the clock advances
Tick ==
    /\ Running
    /\ now < MaxTime
    /\ now' = now + 1
    /\ UNCHANGED <<rayon, pool, proc, threads, mutex, poisoned, gmeasures,
                   woken, pc, tls, tmeasures, thread_start, thread_time,
                   guards, budget, reports, bcast, bpanic, out, regs, decs,
                   lifo, tb, deep, rp, fmt>>

\* THREAD_PROFILER's lazy initialiser, ThreadProfiler::new, first half:
\* GLOBAL_PROFILER.threads.lock().unwrap().  It runs on a thread's first
\* access: Guard::new, dbg_thread, or the broadcast closure.
ThreadProfilerNewLock(t) ==
    /\ Running
    /\ pc[t] = "run"
    /\ tls[t] = "uninit"
    /\ mutex = {}
    /\ IF "threads" \in poisoned
       THEN Panic(t) /\ UNCHANGED mutex
       ELSE Goto(t, "reg") /\ mutex' = {t}
    /\ UNCHANGED <<rayon, pool, now, threads, poisoned, gmeasures, woken,
                   tls, tmeasures, thread_start, thread_time, guards, budget,
                   reports, out, regs, decs, lifo, tb, deep, rp, fmt>>

\* (faulty variant, for C25:) ThreadProfiler::new that does not count the reporting thread
ThreadProfilerNewImplicitMain(t, checked) ==
    /\ Running
    /\ pc[t] = "reg"
    /\ mutex' = {}
    /\ IF threads = UsizeMax /\ checked /\ t # Main
       THEN /\ poisoned' = poisoned \cup {"threads"}
            /\ Panic(t)
            /\ UNCHANGED <<threads, tls, tmeasures, thread_start, thread_time,
                           regs>>
       ELSE /\ threads' = IF t = Main THEN threads
                          ELSE IF threads = UsizeMax THEN 0 ELSE threads + 1
            /\ tls' = Upd(tls, t, "alive")
            /\ tmeasures' = Upd(tmeasures, t, <<>>)
            /\ thread_start' = Upd(thread_start, t, now)
            /\ thread_time' = Upd(thread_time, t, None)
            /\ regs' = Upd(regs, t, regs[t] + 1)
            /\ Goto(t, "run")
            /\ UNCHANGED poisoned
    /\ UNCHANGED <<rayon, pool, now, gmeasures, woken, guards, budget,
                   reports, out, decs, lifo, tb, deep, rp, fmt>>

\* ThreadProfiler::new, second half: `+= 1`, the lock guard dropped, the
\* ThreadProfiler built.  At usize::MAX (where a decrement at 0 without
\* overflow checks leaves the count) the addition panics with overflow
\* checks, the guard alive, and wraps to 0 without them.
ThreadProfilerNew(t, checked) ==
    /\ Running
    /\ pc[t] = "reg"
    /\ mutex' = {}
    /\ IF threads = UsizeMax /\ checked
       THEN /\ poisoned' = poisoned \cup {"threads"}
            /\ Panic(t)
            /\ UNCHANGED <<threads, tls, tmeasures, thread_start, thread_time,
                           regs>>
       ELSE /\ threads' = IF threads = UsizeMax THEN 0 ELSE threads + 1
            /\ tls' = Upd(tls, t, "alive")
            /\ tmeasures' = Upd(tmeasures, t, <<>>)
            /\ thread_start' = Upd(thread_start, t, now)
            /\ thread_time' = Upd(thread_time, t, None)
            /\ regs' = Upd(regs, t, regs[t] + 1)
            /\ Goto(t, "run")
            /\ UNCHANGED poisoned
    /\ UNCHANGED <<rayon, pool, now, gmeasures, woken, guards, budget,
                   reports, out, decs, lifo, tb, deep, rp, fmt>>

\* ThreadProfiler::push: a Start measure stamped now
push(t, name) == Upd(tmeasures, t, Append(tmeasures[t], StartMeasure(name, now)))

\* ThreadProfiler::pop: an End measure with the given time
pop(log, time) == Append(log, EndMeasure(time))

\* (faulty variant, for C21:) Guard::new that registers the thread on every entry
GuardNewRegisters(t, name) ==
    /\ Running
    /\ pc[t] = IF t = Main THEN "scope" ELSE "run"
    /\ tls[t] = "alive"
    /\ budget[t] > 0
    /\ mutex = {}
    /\ threads' = IF threads = UsizeMax THEN 0 ELSE threads + 1
    /\ tmeasures' = push(t, name)
    /\ guards' = Upd(guards, t, Append(guards[t], Len(tmeasures[t]) + 1))
    /\ budget' = Upd(budget, t, budget[t] - 1)
    /\ UNCHANGED <<rayon, pool, proc, now, mutex, poisoned,
                   gmeasures, woken, pc, tls, thread_start, thread_time,
                   reports, bcast, bpanic, out, regs, decs, lifo, tb, deep, rp, fmt>>

\* Guard::new(value, name) on a thread whose THREAD_PROFILER is alive.  The
\* main thread's own guards live inside a print_on_exit! scope.
GuardNew(t, name) ==
    /\ Running
    /\ pc[t] = IF t = Main THEN "scope" ELSE "run"
    /\ tls[t] = "alive"
    /\ budget[t] > 0
    /\ tmeasures' = push(t, name)
    /\ guards' = Upd(guards, t, Append(guards[t], Len(tmeasures[t]) + 1))
    /\ budget' = Upd(budget, t, budget[t] - 1)
    /\ UNCHANGED <<rayon, pool, proc, now, threads, mutex, poisoned,
                   gmeasures, woken, pc, tls, thread_start, thread_time,
                   reports, bcast, bpanic, out, regs, decs, lifo, tb, deep, rp, fmt>>

\* (faulty variant, for C24:) into_inner that forgets self without calling pop
GuardPopsOnDropOnly(how) == IF how = "into_inner" THEN 0 ELSE 1

\* (faulty variant, for C8:) into_inner without mem::forget(self): Drop runs as well
GuardPopsTwice(how) == IF how = "into_inner" THEN 2 ELSE 1

\* How many times Guard::pop runs when a guard is released: Drop::drop calls
\* it once; into_inner calls it once and forgets self, so Drop does not run.
GuardPops(how) == 1

RECURSIVE PopTimes(_, _, _)
PopTimes(log, time, n) ==
    IF n = 0 THEN log ELSE PopTimes(pop(log, time), time, n - 1)

\* Release of the k-th live guard of t (any live guard may be dropped),
\* by Drop or by into_inner.  The guard print_on_exit! made is not in the
\* user's reach: it is released by PrintOnExitLeave.
GuardRelease(t, k, how) ==
    /\ Running
    /\ pc[t] = IF t = Main THEN "scope" ELSE "run"
    /\ k \in 1..Len(guards[t])
    /\ t = Main => k > 1
    /\ tmeasures' = Upd(tmeasures, t, PopTimes(tmeasures[t], now, GuardPops(how)))
    /\ guards' = Upd(guards, t, RemoveAt(guards[t], k))
    /\ lifo' = Upd(lifo, t, lifo[t] /\ k = Len(guards[t]))
    /\ UNCHANGED <<rayon, pool, proc, now, threads, mutex, poisoned,
                   gmeasures, woken, pc, tls, thread_start, thread_time,
                   budget, reports, bcast, bpanic, out, regs, decs, tb, deep, rp, fmt>>

\* print_on_exit!(): ProfiDrop::new, then prof!() with the function's name
PrintOnExitEnter ==
    /\ Running
    /\ pc[Main] = "run"
    /\ tls[Main] = "alive"
    /\ reports < MaxReports
    /\ reports' = reports + 1
    /\ tmeasures' = push(Main, "main")
    /\ guards' = Upd(guards, Main, Append(guards[Main], Len(tmeasures[Main]) + 1))
    /\ Goto(Main, "scope")
    /\ UNCHANGED <<rayon, pool, now, threads, mutex, poisoned, gmeasures,
                   woken, tls, thread_start, thread_time, budget, out, regs,
                   decs, lifo, tb, deep, rp, fmt>>

\* The scope of print_on_exit! ends: the locals declared after it are gone,
\* its own guard is dropped, and ProfiDrop::drop begins.
PrintOnExitLeave ==
    /\ Running
    /\ pc[Main] = "scope"
    /\ Len(guards[Main]) = 1
    /\ tmeasures' = Upd(tmeasures, Main, pop(tmeasures[Main], now))
    /\ guards' = Upd(guards, Main, <<>>)
    /\ Goto(Main, "drop_threads")
    /\ UNCHANGED <<rayon, pool, now, threads, mutex, poisoned, gmeasures,
                   woken, tls, thread_start, thread_time, budget, reports,
                   out, regs, decs, lifo, tb, deep, rp, fmt>>

\* (faulty variant, for C6:) Flush with the reporting thread's entry pushed at the end like any other
FlushAppendsMain(t, main_thread) ==
    LET measures == tmeasures[t]
        time == get_thread_time(t)
    IN  IF measures = <<>> THEN [how |-> "skip", list |-> gmeasures]
        ELSE IF "measures" \in poisoned THEN [how |-> "poison", list |-> gmeasures]
        ELSE IF main_thread
        THEN [how |-> "ok",
              list |-> Append(gmeasures,
                              [tid |-> t, elapsed |-> time, events |-> measures])]
        ELSE IF thread_time[t] = None THEN [how |-> "unwrap", list |-> gmeasures]
        ELSE [how |-> "ok",
              list |-> Append(gmeasures, [tid |-> t, elapsed |-> thread_time[t][1],
                                          events |-> measures])]

\* (faulty variant, for C34:) a flush that replaces the log the thread flushed before
FlushReplacesOwn(t, main_thread) ==
    LET measures == tmeasures[t]
        time == get_thread_time(t)
        others == SelectSeq(gmeasures, LAMBDA e : e.tid # t)
    IN  IF measures = <<>> THEN [how |-> "skip", list |-> gmeasures]
        ELSE IF "measures" \in poisoned THEN [how |-> "poison", list |-> gmeasures]
        ELSE IF main_thread
        THEN [how |-> "ok",
              list |-> <<[tid |-> t, elapsed |-> time, events |-> measures]>>
                       \o others]
        ELSE IF thread_time[t] = None THEN [how |-> "unwrap", list |-> gmeasures]
        ELSE [how |-> "ok",
              list |-> Append(others, [tid |-> t, elapsed |-> thread_time[t][1],
                                       events |-> measures])]

\* manual_drop, lines 89-99: what becomes of the shared list when thread t
\* flushes `measures`.  "skip": nothing to flush; "poison": write().unwrap()
\* fails on a poisoned lock; "unwrap": self.thread_time.unwrap() fails on
\* None, the write guard alive; otherwise the new list.
Flush(t, main_thread) ==
    LET measures == tmeasures[t]
        time == get_thread_time(t)
    IN  IF measures = <<>> THEN [how |-> "skip", list |-> gmeasures]
        ELSE IF "measures" \in poisoned THEN [how |-> "poison", list |-> gmeasures]
        ELSE IF main_thread
        THEN [how |-> "ok",
              list |-> <<[tid |-> t, elapsed |-> time, events |-> measures]>>
                       \o gmeasures]
        ELSE IF thread_time[t] = None THEN [how |-> "unwrap", list |-> gmeasures]
        ELSE [how |-> "ok",
              list |-> Append(gmeasures, [tid |-> t, elapsed |-> thread_time[t][1],
                                          events |-> measures])]

\* drop_threads: manual_drop(true) on the reporting thread, then (rayon) the
\* broadcast is posted to every pool thread
DropThreads ==
    /\ Running
    /\ pc[Main] = "drop_threads"
    /\ LET f == Flush(Main, TRUE)
       IN  /\ tmeasures' = Upd(tmeasures, Main, <<>>)
           /\ gmeasures' = f.list
           /\ IF f.how = "poison"
              THEN Panic(Main)
              ELSE /\ pc' = Upd(pc, Main, IF rayon THEN "broadcast" ELSE "block")
                   /\ bcast' = IF rayon THEN pool ELSE bcast
                   /\ UNCHANGED <<proc, bpanic>>
    /\ UNCHANGED <<rayon, pool, now, threads, mutex, poisoned, woken, tls,
                   thread_start, thread_time, guards, budget, reports, out,
                   regs, decs, lifo, tb, deep, rp, fmt>>

\* a pool thread, between jobs, takes up the broadcast closure:
\* THREAD_PROFILER.with_borrow_mut(|t| t.manual_drop(false))
BroadcastRun(w) ==
    /\ Running
    /\ w \in bcast
    /\ pc[w] = "run"
    /\ tls[w] = "alive"
    /\ guards[w] = <<>>
    /\ Goto(w, "md_flush")
    /\ UNCHANGED <<rayon, pool, now, threads, mutex, poisoned, gmeasures,
                   woken, tls, tmeasures, thread_start, thread_time, guards,
                   budget, reports, out, regs, decs, lifo, tb, deep, rp, fmt>>

\* (faulty variant, for C22:) a broadcast that returns without waiting for the pool threads
BroadcastJoinEarly ==
    /\ Running
    /\ pc[Main] = "broadcast"
    /\ IF bpanic THEN Panic(Main) ELSE Goto(Main, "block")
    /\ UNCHANGED <<rayon, pool, now, threads, mutex, poisoned, gmeasures,
                   woken, tls, tmeasures, thread_start, thread_time, guards,
                   budget, reports, out, regs, decs, lifo, tb, deep, rp, fmt>>

\* rayon::broadcast returns when every pool thread has run the closure, and
\* resumes a panic of the closure on the broadcasting thread
BroadcastJoin ==
    /\ Running
    /\ pc[Main] = "broadcast"
    /\ bcast = {}
    /\ IF bpanic THEN Panic(Main) ELSE Goto(Main, "block")
    /\ UNCHANGED <<rayon, pool, now, threads, mutex, poisoned, gmeasures,
                   woken, tls, tmeasures, thread_start, thread_time, guards,
                   budget, reports, out, regs, decs, lifo, tb, deep, rp, fmt>>

\* manual_drop(false), lines 89-99, on a thread other than the reporting one
ManualDropFlush(t) ==
    /\ Running
    /\ pc[t] = "md_flush"
    /\ LET f == Flush(t, FALSE)
       IN  /\ tmeasures' = Upd(tmeasures, t, <<>>)
           /\ gmeasures' = f.list
           /\ poisoned' = IF f.how = "unwrap" THEN poisoned \cup {"measures"}
                          ELSE poisoned
           /\ IF f.how \in {"poison", "unwrap"}
              THEN Panic(t)
              ELSE Goto(t, "md_lock")
    /\ UNCHANGED <<rayon, pool, now, threads, mutex, woken, tls, thread_start,
                   thread_time, guards, budget, reports, out, regs, decs,
                   lifo, tb, deep, rp, fmt>>

\* manual_drop(false), line 101: GLOBAL_PROFILER.threads.lock().unwrap()
ManualDropLock(t) ==
    /\ Running
    /\ pc[t] = "md_lock"
    /\ mutex = {}
    /\ IF "threads" \in poisoned
       THEN Panic(t) /\ UNCHANGED mutex
       ELSE Goto(t, "md_dec") /\ mutex' = {t}
    /\ UNCHANGED <<rayon, pool, now, threads, poisoned, gmeasures, woken, tls,
                   tmeasures, thread_start, thread_time, guards, budget,
                   reports, out, regs, decs, lifo, tb, deep, rp, fmt>>

\* Condvar::notify_one: wakes the thread waiting in block_until_exited, if
\* one waits
notify_one == woken \/ pc[Main] = "cv_wait"

\* manual_drop(false), lines 102-104: `*lock -= 1`, notify_one, the lock
\* guard dropped.  At 0 the subtraction panics with overflow checks (the
\* guard alive: the mutex is poisoned) and wraps without them.
ManualDropDec(t, checked) ==
    /\ Running
    /\ pc[t] = "md_dec"
    /\ mutex' = {}
    /\ IF threads = 0 /\ checked
       THEN /\ poisoned' = poisoned \cup {"threads"}
            /\ Panic(t)
            /\ UNCHANGED <<threads, woken, decs>>
       ELSE /\ threads' = IF threads = 0 THEN UsizeMax ELSE threads - 1
            /\ woken' = notify_one
            /\ decs' = Upd(decs, t, decs[t] + 1)
            /\ pc' = Upd(pc, t, IF t \in pool THEN "run" ELSE "done")
            /\ bcast' = bcast \ {t}
            /\ proc' = IF t = Main THEN "exited" ELSE proc
            /\ UNCHANGED <<poisoned, bpanic>>
    /\ UNCHANGED <<rayon, pool, now, gmeasures, tls, tmeasures, thread_start,
                   thread_time, guards, budget, reports, out, regs, lifo, tb, deep, rp, fmt>>

\* block_until_exited, line 188: threads.lock().unwrap()
BlockLock ==
    /\ Running
    /\ pc[Main] = "block"
    /\ mutex = {}
    /\ IF "threads" \in poisoned
       THEN Panic(Main) /\ UNCHANGED mutex
       ELSE Goto(Main, "check") /\ mutex' = {Main}
    /\ UNCHANGED <<rayon, pool, now, threads, poisoned, gmeasures, woken, tls,
                   tmeasures, thread_start, thread_time, guards, budget,
                   reports, out, regs, decs, lifo, tb, deep, rp, fmt>>

\* the loop condition of block_until_exited
StillActive == threads > 1

\* block_until_exited, lines 190-192, the mutex held: either cvar.wait gives
\* the mutex up and sleeps, or the function returns and the guard is dropped
BlockCheck ==
    /\ Running
    /\ pc[Main] = "check"
    /\ mutex' = {}
    /\ woken' = FALSE
    /\ Goto(Main, IF StillActive THEN "cv_wait" ELSE "print")
    /\ UNCHANGED <<rayon, pool, now, threads, poisoned, gmeasures, tls,
                   tmeasures, thread_start, thread_time, guards, budget,
                   reports, out, regs, decs, lifo, tb, deep, rp, fmt>>

\* cvar.wait returns: woken by notify_one, or spuriously; it takes the mutex
\* again before the loop condition is read
BlockWake(spurious) ==
    /\ Running
    /\ pc[Main] = "cv_wait"
    /\ woken \/ spurious
    /\ mutex = {}
    /\ mutex' = {Main}
    /\ woken' = FALSE
    /\ Goto(Main, "check")
    /\ UNCHANGED <<rayon, pool, now, threads, poisoned, gmeasures, tls,
                   tmeasures, thread_start, thread_time, guards, budget,
                   reports, out, regs, decs, lifo, tb, deep, rp, fmt>>

\* a log on which into_tree panics
LogPanics(entry) == into_tree(entry.events).panicked

\* print_timings_to(&mut self.0).unwrap(): GlobalProfiler::print_timings
\* reads the list under the read lock and process::print_timings renders
\* it; io_ok is whether the writes to the sink succeed
PrintTimings(io_ok) ==
    /\ Running
    /\ pc[Main] = "print"
    /\ IF \/ "measures" \in poisoned
          \/ \E i \in 1..Len(gmeasures) : LogPanics(gmeasures[i])
          \/ ~io_ok
       THEN Panic(Main) /\ UNCHANGED out
       ELSE Goto(Main, "hook") /\ out' = Append(out, gmeasures)
    /\ UNCHANGED <<rayon, pool, now, threads, mutex, poisoned, gmeasures,
                   woken, tls, tmeasures, thread_start, thread_time, guards,
                   budget, reports, regs, decs, lifo, tb, deep, rp, fmt>>

\* ProfiDrop::drop, lines 149-150: the ondrop closure
OnDrop ==
    /\ Running
    /\ pc[Main] = "hook"
    /\ Goto(Main, "run")
    /\ UNCHANGED <<rayon, pool, now, threads, mutex, poisoned, gmeasures,
                   woken, tls, tmeasures, thread_start, thread_time, guards,
                   budget, reports, out, regs, decs, lifo, tb, deep, rp, fmt>>

\* A thread's closure returns (main returns): its thread-local destructors
\* run.  Drop for ThreadProfiler calls manual_drop(false) unless the rayon
\* feature is on.  Pool threads are never torn down.
ThreadExit(t) ==
    /\ Running
    /\ pc[t] = "run"
    /\ t \notin pool
    /\ guards[t] = <<>>
    /\ IF tls[t] = "alive" /\ ~rayon
       THEN Goto(t, "md_flush")
       ELSE /\ pc' = Upd(pc, t, "done")
            /\ proc' = IF t = Main THEN "exited" ELSE proc
            /\ UNCHANGED <<bcast, bpanic>>
    /\ UNCHANGED <<rayon, pool, now, threads, mutex, poisoned, gmeasures,
                   woken, tls, tmeasures, thread_start, thread_time, guards,
                   budget, reports, out, regs, decs, lifo, tb, deep, rp, fmt>>

\* no into_tree call in progress
TbIdle == [input |-> <<>>, i |-> 0, st |-> TreeInit, status |-> "idle", total |-> 0]

\* print_timings not called yet
RpIdle ==
    [calls |-> 0, ret |-> "none", sink_ok |-> TRUE, total_app |-> 0,
     timings |-> <<>>, by |-> Main, own |-> <<>>]

\* to_timings not called yet
FmtIdle == [a |-> None, b |-> None, status |-> "idle", timings |-> <<>>]

InitCommon ==
    /\ fmt = FmtIdle
    /\ proc = "running"
    /\ now = 0
    /\ threads = 0
    /\ mutex = {}
    /\ poisoned = {}
    /\ gmeasures = <<>>
    /\ woken = FALSE
    /\ pc = [t \in Threads |-> "run"]
    /\ tls = [t \in Threads |-> "uninit"]
    /\ tmeasures = [t \in Threads |-> <<>>]
    /\ thread_start = [t \in Threads |-> 0]
    /\ thread_time = [t \in Threads |-> None]
    /\ guards = [t \in Threads |-> <<>>]
    /\ reports = 0
    /\ bcast = {}
    /\ bpanic = FALSE
    /\ out = <<>>
    /\ regs = [t \in Threads |-> 0]
    /\ decs = [t \in Threads |-> 0]
    /\ lifo = [t \in Threads |-> TRUE]
    /\ deep = FALSE
    /\ rp = RpIdle

Init ==
    /\ InitCommon
    /\ rayon \in BOOLEAN
    /\ pool \in (IF rayon THEN SUBSET Workers ELSE {{}})
    /\ budget = [t \in Threads |-> MaxGuards]
    /\ tb = TbIdle

Next ==
    \/ Tick
    \/ \E t \in Threads : ThreadProfilerNewLock(t)
    \/ \E t \in Threads, checked \in BOOLEAN : ThreadProfilerNew(t, checked)
    \/ \E t \in Threads : GuardNew(t, "a")
    \/ \E t \in Threads, k \in 1..MaxGuards + 1, how \in {"drop", "into_inner"} :
          GuardRelease(t, k, how)
    \/ PrintOnExitEnter
    \/ PrintOnExitLeave
    \/ DropThreads
    \/ \E w \in Workers : BroadcastRun(w)
    \/ BroadcastJoin
    \/ \E t \in Threads : ManualDropFlush(t)
    \/ \E t \in Threads : ManualDropLock(t)
    \/ \E t \in Threads, checked \in BOOLEAN : ManualDropDec(t, checked)
    \/ BlockLock
    \/ BlockCheck
    \/ \E spurious \in BOOLEAN : BlockWake(spurious)
    \/ \E io_ok \in BOOLEAN : PrintTimings(io_ok)
    \/ OnDrop
    \/ \E t \in Threads : ThreadExit(t)

Spec == Init /\ [][Next]_vars

\* the thread of SpecGuard: a spawned thread that creates and releases
\* guards, in any order, and is not torn down; the pool thread of SpecDirect
Solo == CHOOSE w \in Workers : TRUE

\* ------------------------------------- direct print operations (SpecDirect)
\* zz_private::print_timings / eprint_timings / print_timings_to, called by
\* thread t from user code, outside the rayon pool:
\* GLOBAL_PROFILER.print_timings(to)?, that is
\* process::print_timings(self.measures.read().unwrap().as_slice(), to).
\* (faulty variant, for C36:) a print that flushes the caller's log first
DirectPrintFinalizes(t, io_ok) ==
    /\ Running
    /\ t \notin pool
    /\ pc[t] \in {"run", "scope"}
    /\ rp.calls < MaxDirect
    /\ LET list == Flush(t, TRUE).list
           agg == Aggregate(list)
       IN  /\ gmeasures' = list
           /\ tmeasures' = Upd(tmeasures, t, <<>>)
           /\ IF "measures" \in poisoned \/ agg.panicked
              THEN /\ Panic(t)
                   /\ rp' = [rp EXCEPT !.calls = @ + 1, !.ret = "panic",
                                        !.sink_ok = TRUE, !.by = t,
                                        !.own = tmeasures[t]]
                   /\ UNCHANGED out
              ELSE /\ UNCHANGED <<pc, proc, bcast, bpanic>>
                   /\ rp' = [calls |-> rp.calls + 1,
                             ret |-> IF io_ok THEN "Ok" ELSE "Err",
                             sink_ok |-> io_ok,
                             total_app |-> agg.total_app,
                             timings |-> agg.timings,
                             by |-> t, own |-> tmeasures[t]]
                   /\ out' = IF io_ok THEN Append(out, create_table(agg.timings))
                             ELSE out
    /\ UNCHANGED <<rayon, pool, now, threads, mutex, poisoned, woken, tls,
                   thread_start, thread_time, guards, budget, reports, regs,
                   decs, lifo, tb, deep, fmt>>

\* (faulty variant, for C33:) a read() that hands out a poisoned lock
DirectPrintIgnoresPoison(t, io_ok) ==
    /\ Running
    /\ t \notin pool
    /\ pc[t] \in {"run", "scope"}
    /\ rp.calls < MaxDirect
    /\ LET agg == Aggregate(gmeasures)
       IN  IF agg.panicked
           THEN /\ Panic(t)
                /\ rp' = [rp EXCEPT !.calls = @ + 1, !.ret = "panic",
                                     !.sink_ok = TRUE, !.by = t,
                                     !.own = tmeasures[t]]
                /\ UNCHANGED out
           ELSE /\ UNCHANGED <<pc, proc, bcast, bpanic>>
                /\ rp' = [calls |-> rp.calls + 1,
                          ret |-> IF io_ok THEN "Ok" ELSE "Err",
                          sink_ok |-> io_ok,
                          total_app |-> agg.total_app,
                          timings |-> agg.timings,
                          by |-> t, own |-> tmeasures[t]]
                /\ out' = IF io_ok THEN Append(out, create_table(agg.timings))
                          ELSE out
    /\ UNCHANGED <<rayon, pool, now, threads, mutex, poisoned, gmeasures,
                   woken, tls, tmeasures, thread_start, thread_time, guards,
                   budget, reports, regs, decs, lifo, tb, deep, fmt>>

\* the read lock is taken (a poisoned lock fails the unwrap), the table is
\* made of the shared list as it is and written to the sink; an error of
\* the sink is returned.  Neither THREAD_PROFILER nor the thread count is
\* touched.
DirectPrint(t, io_ok) ==
    /\ Running
    /\ t \notin pool
    /\ pc[t] \in {"run", "scope"}
    /\ rp.calls < MaxDirect
    /\ LET agg == Aggregate(gmeasures)
       IN  IF "measures" \in poisoned \/ agg.panicked
           THEN /\ Panic(t)
                /\ rp' = [rp EXCEPT !.calls = @ + 1, !.ret = "panic",
                                     !.sink_ok = TRUE, !.by = t,
                                     !.own = tmeasures[t]]
                /\ UNCHANGED out
           ELSE /\ UNCHANGED <<pc, proc, bcast, bpanic>>
                /\ rp' = [calls |-> rp.calls + 1,
                          ret |-> IF io_ok THEN "Ok" ELSE "Err",
                          sink_ok |-> io_ok,
                          total_app |-> agg.total_app,
                          timings |-> agg.timings,
                          by |-> t, own |-> tmeasures[t]]
                /\ out' = IF io_ok THEN Append(out, create_table(agg.timings))
                          ELSE out
    /\ UNCHANGED <<rayon, pool, now, threads, mutex, poisoned, gmeasures,
                   woken, tls, tmeasures, thread_start, thread_time, guards,
                   budget, reports, regs, decs, lifo, tb, deep, fmt>>

NextDirect ==
    \/ Next
    \/ \E t \in Threads, io_ok \in BOOLEAN : DirectPrint(t, io_ok)

\* one pool thread and one spawned thread next to the reporting thread
InitDirect ==
    /\ Init
    /\ rayon
    /\ pool = {Solo}

SpecDirect == InitDirect /\ [][NextDirect]_vars

\* ------------------------------------------ one thread's guards (SpecGuard)
InitGuard ==
    /\ InitCommon
    /\ rayon = FALSE
    /\ pool = {}
    /\ budget = [t \in Threads |-> IF t = Solo THEN MaxGuardsSolo ELSE 0]
    /\ tb = TbIdle

NextGuard ==
    \/ Tick
    \/ ThreadProfilerNewLock(Solo)
    \/ \E checked \in BOOLEAN : ThreadProfilerNew(Solo, checked)
    \/ \E name \in Names : GuardNew(Solo, name)
    \/ \E k \in 1..MaxGuardsSolo, how \in {"drop", "into_inner"} :
          GuardRelease(Solo, k, how)

SpecGuard == InitGuard /\ [][NextGuard]_vars

\* --------------------------------------- into_tree step by step (SpecTree)
\* The logs into_tree is applied to: every sequence of at most MaxLog
\* measures over Names whose times do not decrease (a thread's clock is
\* monotonic).  A log need not be balanced: a thread's log is flushed as it
\* stands, and a Guard may be forgotten or dropped on another thread.
Kinds == Names \cup {"End"}

Shapes == UNION {[1..n -> Kinds \X Deltas] : n \in 0..MaxLog}

RECURSIVE TimeAt(_, _)
TimeAt(shape, i) == IF i = 0 THEN 0 ELSE TimeAt(shape, i - 1) + shape[i][2]

MkLog(shape) ==
    [i \in 1..Len(shape) |->
        IF shape[i][1] = "End" THEN EndMeasure(TimeAt(shape, i))
        ELSE StartMeasure(shape[i][1], TimeAt(shape, i))]

InitTree ==
    /\ InitCommon
    /\ rayon = FALSE
    /\ pool = {}
    /\ budget = [t \in Threads |-> 0]
    /\ tb \in {[input |-> MkLog(sh), i |-> 0, st |-> TreeInit,
                status |-> "loop", total |-> 0] : sh \in Shapes}

TbUnchanged ==
    UNCHANGED <<rayon, pool, proc, now, threads, mutex, poisoned, gmeasures,
                woken, pc, tls, tmeasures, thread_start, thread_time, guards,
                budget, reports, bcast, bpanic, out, regs, decs, lifo, deep, rp, fmt>>

\* one turn of the loop of into_tree, on a Start measure
TbStart ==
    /\ tb.status = "loop"
    /\ tb.i < Len(tb.input)
    /\ tb.input[tb.i + 1].ty = "Start"
    /\ tb' = [tb EXCEPT !.i = @ + 1, !.st = MeasureStep(@, tb.input[tb.i + 1])]
    /\ TbUnchanged

\* one turn of the loop of into_tree, on an End measure
TbEnd ==
    /\ tb.status = "loop"
    /\ tb.i < Len(tb.input)
    /\ tb.input[tb.i + 1].ty = "End"
    /\ LET st == MeasureStep(tb.st, tb.input[tb.i + 1])
       IN  tb' = [tb EXCEPT !.i = @ + 1, !.st = st,
                            !.status = IF st.panicked THEN "panicked" ELSE "loop"]
    /\ TbUnchanged

\* the loop is over: into_tree returns
TbReturn ==
    /\ tb.status = "loop"
    /\ tb.i = Len(tb.input)
    /\ LET r == AfterLoop(tb.st)
       IN  tb' = [tb EXCEPT !.status = IF r.panicked THEN "panicked" ELSE "returned",
                            !.total = r.total]
    /\ TbUnchanged

NextTree == TbStart \/ TbEnd \/ TbReturn

SpecTree == InitTree /\ [][NextTree]_vars

\* ------------------------------- print_timings on a shared list (SpecReport)
\* The logs in the shared list: those of threads whose guards were created
\* and dropped by scope (prof!), hence balanced; and never empty, because
\* manual_drop flushes no empty log.  NestedShapes(n, open): the ways to go
\* on for n events, with `open` scopes open, to a log with none open.
RECURSIVE NestedShapes(_, _)
NestedShapes(n, open) ==
    IF n = 0 THEN (IF open = 0 THEN {<<>>} ELSE {})
    ELSE IF open > n THEN {}
    ELSE {<<e>> \o r : e \in Names \X Gaps, r \in NestedShapes(n - 1, open + 1)}
         \cup (IF open = 0 THEN {}
               ELSE {<<e>> \o r : e \in {"End"} \X Gaps,
                                  r \in NestedShapes(n - 1, open - 1)})

\* A thread's profiler is created by its first Guard::new, so its first
\* Start is stamped as the thread starts.
FlushedLogs ==
    {MkLog(sh) : sh \in UNION {{<<<<name, 0>>>> \o r : name \in Names,
                                   r \in NestedShapes(n - 1, 1)} :
                                 n \in 1..MaxEvents}}

\* the lists of logs that hold at most `room` events in all
RECURSIVE LogLists(_)
LogLists(room) ==
    {<<>>} \cup UNION {{<<log>> \o rest : rest \in LogLists(room - Len(log))} :
                          log \in {l \in FlushedLogs : Len(l) <= room}}

\* the entry manual_drop makes of the i-th log, flushed as its last event is
\* recorded by a thread that started at time 0
ListEntry(logs, i) ==
    [tid |-> i - 1, elapsed |-> Last(logs[i]).time, events |-> logs[i]]

SharedLists ==
    {[i \in 1..Len(logs) |-> ListEntry(logs, i)] : logs \in LogLists(MaxEvents) \ {<<>>}}

\* the reporting thread is registered, every other thread has come and gone
InitReport ==
    /\ rayon = FALSE
    /\ pool = {}
    /\ proc = "running"
    /\ now = 0
    /\ threads = 1
    /\ mutex = {}
    /\ poisoned = {}
    /\ gmeasures \in SharedLists
    /\ woken = FALSE
    /\ pc = [t \in Threads |-> IF t = Main THEN "run" ELSE "done"]
    /\ tls = [t \in Threads |-> IF t = Main THEN "alive" ELSE "uninit"]
    /\ tmeasures = [t \in Threads |-> <<>>]
    /\ thread_start = [t \in Threads |-> 0]
    /\ thread_time = [t \in Threads |-> None]
    /\ guards = [t \in Threads |-> <<>>]
    /\ budget = [t \in Threads |-> 0]
    /\ reports = 0
    /\ bcast = {}
    /\ bpanic = FALSE
    /\ out = <<>>
    /\ regs = [t \in Threads |-> IF t = Main THEN 1 ELSE 0]
    /\ decs = [t \in Threads |-> 0]
    /\ lifo = [t \in Threads |-> TRUE]
    /\ tb = TbIdle
    /\ deep \in BOOLEAN
    /\ rp = RpIdle
    /\ fmt = FmtIdle

\* zz_private::print_timings_to(to), called by the reporting thread:
\* (faulty variant, for C19:) a rendering that takes the logs out of the shared list
PrintTimingsToDrains(io_ok) ==
    /\ Running
    /\ pc[Main] = "run"
    /\ rp.calls < MaxRenders
    /\ LET agg == Aggregate(gmeasures)
       IN  IF "measures" \in poisoned \/ agg.panicked
           THEN /\ Panic(Main)
                /\ rp' = [rp EXCEPT !.calls = @ + 1, !.ret = "panic",
                                     !.sink_ok = TRUE]
                /\ UNCHANGED out
           ELSE /\ UNCHANGED <<pc, proc, bcast, bpanic>>
                /\ rp' = [calls |-> rp.calls + 1,
                          ret |-> IF io_ok THEN "Ok" ELSE "Err",
                          sink_ok |-> io_ok,
                          total_app |-> agg.total_app,
                          timings |-> agg.timings,
                          by |-> Main, own |-> tmeasures[Main]]
                /\ out' = IF io_ok THEN Append(out, create_table(agg.timings))
                          ELSE out
    /\ gmeasures' = <<>>
    /\ UNCHANGED <<rayon, pool, now, threads, mutex, poisoned,
                   woken, tls, tmeasures, thread_start, thread_time, guards,
                   budget, reports, regs, decs, lifo, tb, deep, fmt>>

\* (faulty variant, for C20:) a rendering that unwraps the result of the write
PrintTimingsToUnwraps(io_ok) ==
    /\ Running
    /\ pc[Main] = "run"
    /\ rp.calls < MaxRenders
    /\ LET agg == Aggregate(gmeasures)
       IN  IF "measures" \in poisoned \/ agg.panicked \/ ~io_ok
           THEN /\ Panic(Main)
                /\ rp' = [rp EXCEPT !.calls = @ + 1, !.ret = "panic",
                                     !.sink_ok = io_ok]
                /\ UNCHANGED out
           ELSE /\ UNCHANGED <<pc, proc, bcast, bpanic>>
                /\ rp' = [calls |-> rp.calls + 1,
                          ret |-> "Ok",
                          sink_ok |-> io_ok,
                          total_app |-> agg.total_app,
                          timings |-> agg.timings,
                          by |-> Main, own |-> tmeasures[Main]]
                /\ out' = Append(out, create_table(agg.timings))
    /\ UNCHANGED <<rayon, pool, now, threads, mutex, poisoned, gmeasures,
                   woken, tls, tmeasures, thread_start, thread_time, guards,
                   budget, reports, regs, decs, lifo, tb, deep, fmt>>

\* GlobalProfiler::print_timings reads the list under the read lock,
\* process::print_timings aggregates it and writes the table.  A panic of
\* into_tree unwinds through the caller; a failed write comes back as Err.
PrintTimingsTo(io_ok) ==
    /\ Running
    /\ pc[Main] = "run"
    /\ rp.calls < MaxRenders
    /\ LET agg == Aggregate(gmeasures)
       IN  IF "measures" \in poisoned \/ agg.panicked
           THEN /\ Panic(Main)
                /\ rp' = [rp EXCEPT !.calls = @ + 1, !.ret = "panic",
                                     !.sink_ok = TRUE]
                /\ UNCHANGED out
           ELSE /\ UNCHANGED <<pc, proc, bcast, bpanic>>
                /\ rp' = [calls |-> rp.calls + 1,
                          ret |-> IF io_ok THEN "Ok" ELSE "Err",
                          sink_ok |-> io_ok,
                          total_app |-> agg.total_app,
                          timings |-> agg.timings,
                          by |-> Main, own |-> tmeasures[Main]]
                /\ out' = IF io_ok THEN Append(out, create_table(agg.timings))
                          ELSE out
    /\ UNCHANGED <<rayon, pool, now, threads, mutex, poisoned, gmeasures,
                   woken, tls, tmeasures, thread_start, thread_time, guards,
                   budget, reports, regs, decs, lifo, tb, deep, fmt>>

NextReport == \E io_ok \in BOOLEAN : PrintTimingsTo(io_ok)

SpecReport == InitReport /\ [][NextReport]_vars

\* ------------------------------------------------------------------------
\* The merge key of print_timings on its own: two nodes of one thread's
\* forest, each with a name and a depth, are flattened by to_timings and
\* entered into the `timings` map.
FmtNames == {"a", "b", " a", "(+20) a"}

FmtDepths == {0, 1, 2, 14, 19, 20, 21}

FmtNodes == [name : FmtNames, depth : FmtDepths]

InitFormat ==
    /\ proc = "running"
    /\ now = 0
    /\ rayon = FALSE
    /\ pool = {}
    /\ threads = 0
    /\ mutex = {}
    /\ poisoned = {}
    /\ gmeasures = <<>>
    /\ woken = FALSE
    /\ pc = [t \in Threads |-> "run"]
    /\ tls = [t \in Threads |-> "uninit"]
    /\ tmeasures = [t \in Threads |-> <<>>]
    /\ thread_start = [t \in Threads |-> 0]
    /\ thread_time = [t \in Threads |-> None]
    /\ guards = [t \in Threads |-> <<>>]
    /\ budget = [t \in Threads |-> 0]
    /\ reports = 0
    /\ bcast = {}
    /\ bpanic = FALSE
    /\ out = <<>>
    /\ regs = [t \in Threads |-> 0]
    /\ decs = [t \in Threads |-> 0]
    /\ lifo = [t \in Threads |-> TRUE]
    /\ tb = TbIdle
    /\ rp = RpIdle
    /\ deep \in BOOLEAN
    /\ \E a \in FmtNodes, b \in FmtNodes :
          fmt = [a |-> a, b |-> b, status |-> "asked", timings |-> <<>>]

\* to_timings, lines 141-153, of one node that was entered once
NodeTiming(node) ==
    from_durations(node.name, FormattedName(node.name, node.depth), <<1>>, 1, 0)

\* print_timings, lines 179-196: the two nodes enter the map
FormatNodes ==
    /\ fmt.status = "asked"
    /\ fmt' = [fmt EXCEPT !.status = "done",
                          !.timings = AddTimings(<<>>, <<NodeTiming(fmt.a),
                                                        NodeTiming(fmt.b)>>, 1)]
    /\ UNCHANGED <<rayon, pool, proc, now, threads, mutex, poisoned, gmeasures,
                   woken, pc, tls, tmeasures, thread_start, thread_time,
                   guards, budget, reports, bcast, bpanic, out, regs, decs,
                   lifo, tb, deep, rp>>

NextFormat == FormatNodes

SpecFormat == InitFormat /\ [][NextFormat]_vars

\* ================================================================ properties
\* ----------------------------------------------------- vocabulary of logs
NumStart(log) == Cardinality({i \in DOMAIN log : log[i].ty = "Start"})

NumEnd(log) == Cardinality({i \in DOMAIN log : log[i].ty = "End"})

Prefix(log, i) == SubSeq(log, 1, i)

\* no prefix has more End than Start measures
PrefixBalanced(log) ==
    \A i \in 0..Len(log) : NumEnd(Prefix(log, i)) <= NumStart(Prefix(log, i))

Balanced(log) == PrefixBalanced(log) /\ NumStart(log) = NumEnd(log)

\* the indices of the Start measures no End has closed, oldest first, when
\* each End closes the youngest open Start
RECURSIVE OpenFrom(_, _, _)
OpenFrom(log, i, stack) ==
    IF i > Len(log) THEN stack
    ELSE IF log[i].ty = "Start" THEN OpenFrom(log, i + 1, Append(stack, i))
    ELSE OpenFrom(log, i + 1, IF stack = <<>> THEN stack ELSE Front(stack))

OpenStarts(log) == OpenFrom(log, 1, <<>>)

\* for each Start measure of the log, in order, the names of the scopes open
\* once it is entered, outermost first
RECURSIVE EnterStacks(_, _, _, _)
EnterStacks(log, i, stack, acc) ==
    IF i > Len(log) THEN acc
    ELSE IF log[i].ty = "Start"
    THEN EnterStacks(log, i + 1, Append(stack, log[i].name),
                     Append(acc, Append(stack, log[i].name)))
    ELSE EnterStacks(log, i + 1, IF stack = <<>> THEN stack ELSE Front(stack), acc)

\* how often the log enters the scope with this chain of names
TimesEntered(log, names) ==
    LET es == EnterStacks(log, 1, <<>>, <<>>)
    IN  Cardinality({k \in DOMAIN es : es[k] = names})

\* the chain of names leading to the node at path p
NamePath(tree, p) == [i \in 1..Len(p) |-> tree[SubSeq(p, 1, i)].name]

RECURSIVE CountOver(_, _)
CountOver(tree, paths) ==
    IF paths = {} THEN 0
    ELSE LET p == CHOOSE q \in paths : TRUE
         IN  Len(tree[p].measures) + CountOver(tree, paths \ {p})

\* the durations held by all nodes of the forest
NumDurations(tree) == CountOver(tree, DOMAIN tree)

\* -------------------------------------------------------------------- C1
\* the step in which GlobalProfiler::print_timings reads the shared list
ReadStep ==
    /\ pc[Main] = "print"
    /\ pc'[Main] = "hook"

\* worker w has gone through lines 89-99 of manual_drop since it last
\* recorded anything
Flushed(w) ==
    IF w \in pool
    THEN \/ pc[w] \in {"md_lock", "md_dec"}
         \/ pc[w] = "run" /\ w \notin bcast /\ tmeasures[w] = <<>> /\ decs[w] > 0
    ELSE \/ pc[w] \in {"md_lock", "md_dec"}
         \/ pc[w] = "done" /\ ~rayon

\* C1: the report path reads the shared list of finalized logs only after
\* every worker thread that registered has pushed its log.
C1_ReadAfterAllFinalized ==
    [][ReadStep => \A w \in Workers : tls[w] = "alive" => Flushed(w)]_vars

\* -------------------------------------------------------------------- C2
AwaitingQuiescence == pc[Main] \in {"block", "check", "cv_wait"}

\* every registered worker has ended its work and its thread-local
\* destructor has run to its end or to a panic
WorkersTornDown ==
    \A w \in Workers : tls[w] = "alive" => pc[w] \in {"done", "panicked"}

\* C2: once every registered worker has ended and had its ThreadProfiler
\* torn down (the build in which Drop finalizes: rayon off), the reporting
\* thread waiting in block_until_exited can still get out: the process runs,
\* the count is down to 1, and if the reporter sleeps on the condition
\* variable a wake-up is on its way.  Nothing but the reporter can move in
\* such a state, so a state where this fails is one where the report is
\* never produced.
C2_DrainCompletes ==
    (~rayon /\ AwaitingQuiescence /\ WorkersTornDown)
        => /\ proc = "running"
           /\ threads <= 1
           /\ pc[Main] = "cv_wait" => woken

\* -------------------------------------------------------------------- C3
\* C3: manual_drop(false) on a thread whose log holds at least one measure
\* appends (elapsed, measures) to the end of the shared list, elapsed being
\* now - thread_start when no thread_time was captured, and goes on to the
\* decrement, which takes exactly one off the count and notifies.
C3_WorkerFinalizeAppends ==
    [][\A t \in Workers :
          /\ (pc[t] = "md_flush" /\ pc'[t] # "md_flush"
                /\ tmeasures[t] # <<>> /\ "measures" \notin poisoned)
             => /\ gmeasures' = Append(gmeasures,
                                   [tid |-> t, elapsed |-> get_thread_time(t),
                                    events |-> tmeasures[t]])
                /\ pc'[t] = "md_lock"
          /\ (pc[t] = "md_dec" /\ pc'[t] # "md_dec")
             => /\ threads' = threads - 1
                /\ pc[Main] = "cv_wait" => woken']_vars

\* -------------------------------------------------------------------- C4
EntriesOf(t) == {i \in 1..Len(gmeasures) : gmeasures[i].tid = t}

\* C4: the shared list holds at most one entry per thread, and the count is
\* decremented at most once for each registration.
C4_FlushedOnce ==
    \A t \in Threads :
        /\ Cardinality(EntriesOf(t)) <= 1
        /\ decs[t] <= regs[t]

\* -------------------------------------------------------------------- C5
\* C5: the count is never decremented at 0, and a thread about to increment
\* or decrement it holds its mutex.
C5_CountNeverBelowZero ==
    \A t \in Threads :
        /\ pc[t] \in {"reg", "md_dec"} => mutex = {t}
        /\ pc[t] = "md_dec" => threads > 0

\* -------------------------------------------------------------------- C6
\* C6: the reporting thread's manual_drop(true) puts its log at index 0 of
\* the shared list and leaves the count alone; the entry stays at index 0
\* through the broadcast, the wait and the read; the reporting thread's own
\* decrement comes only when every report it began has been rendered.
C6_MainFirst ==
    /\ [][(pc[Main] = "drop_threads" /\ pc'[Main] \in {"broadcast", "block"})
            => /\ gmeasures'[1] = [tid |-> Main, elapsed |-> get_thread_time(Main),
                                   events |-> tmeasures[Main]]
               /\ threads' = threads
               /\ decs' = decs]_vars
    /\ [][pc[Main] \in {"broadcast", "block", "check", "cv_wait", "print"}
            => gmeasures'[1] = gmeasures[1]]_vars
    /\ [][decs'[Main] # decs[Main]
            => pc[Main] = "md_dec" /\ Len(out) = reports]_vars

\* a second report has been rendered, a worker active meanwhile, with the
\* reporting thread's latest log read at index 0
C6_Witness ==
    /\ pc[Main] = "hook"
    /\ Len(out) = 2
    /\ Last(out)[1].tid = Main
    /\ Last(out)[1] # Last(out)[2]
    /\ \E w \in Workers : regs[w] > 0

\* -------------------------------------------------------------------- C7
\* C7: on a balanced log, no node of the forest ever holds more durations
\* than the times the events read so far enter its scope, and the forest
\* returned holds in total as many durations as the log has Start measures.
C7_DurationsMatchEnters ==
    Balanced(tb.input) =>
        /\ \A p \in DOMAIN tb.st.tree :
              Len(tb.st.tree[p].measures)
                 <= TimesEntered(Prefix(tb.input, tb.i), NamePath(tb.st.tree, p))
        /\ tb.status = "returned" => NumDurations(tb.st.tree) = NumStart(tb.input)

\* a balanced log that enters one scope twice went through: its node holds
\* two durations
C7_Witness ==
    /\ tb.status = "returned"
    /\ Balanced(tb.input)
    /\ Len(tb.input) >= 4
    /\ \E p \in DOMAIN tb.st.tree : Len(tb.st.tree[p].measures) = 2

\* -------------------------------------------------------------------- C8
\* C8: as long as a thread has released its guards youngest first, its log
\* is LIFO-balanced: no prefix has more End than Start measures, the Starts
\* left open by closing, at each End, the youngest open Start are exactly
\* those of the guards still alive, and with no guard alive Start and End
\* measures are equal in number.
C8_LifoBalanced ==
    \A t \in Threads :
        lifo[t] => /\ PrefixBalanced(tmeasures[t])
                   /\ OpenStarts(tmeasures[t]) = guards[t]
                   /\ guards[t] = <<>> => NumStart(tmeasures[t]) = NumEnd(tmeasures[t])

\* three nested guards created and released youngest first, one by into_inner
C8_Witness ==
    /\ lifo[Solo]
    /\ guards[Solo] = <<>>
    /\ Len(tmeasures[Solo]) = 2 * MaxGuardsSolo
    /\ \A i \in 1..MaxGuardsSolo : tmeasures[Solo][i].ty = "Start"

\* -------------------------------------------------------------------- C9
\* C9: an End measure met with current_path and start_times empty makes
\* into_tree panic: the forest is left as it was (no duration recorded), and
\* after the panic nothing more happens to that log (nothing is returned).
C9_EndOnEmptyPanics ==
    /\ [][(/\ tb.status = "loop"
           /\ tb.i < Len(tb.input)
           /\ tb.input[tb.i + 1].ty = "End"
           /\ tb.st.current_path = <<>>
           /\ tb.st.start_times = <<>>
           /\ tb' # tb)
            => /\ tb'.status = "panicked"
               /\ tb'.st.tree = tb.st.tree]_vars
    /\ [][tb.status = "panicked" => tb' = tb]_vars

\* a scope entered and left, then an End that closes nothing: panic
C9_Witness ==
    /\ tb.status = "panicked"
    /\ tb.i = 3
    /\ NumDurations(tb.st.tree) = 1

\* ------------------------------------------------------------------- C10
\* C10 as stated: into_tree returns a forest for balanced logs only.
C10_UnbalancedIsFatal == tb.status = "returned" => Balanced(tb.input)

\* C10, amended: into_tree panics exactly on an End that closes nothing.  A
\* log whose only imbalance is Start measures left open is read to its end
\* and a forest returned, which holds one duration per End measure: a scope
\* left open adds a node entry with no duration.
C10_OnlySurplusEndIsFatal ==
    /\ tb.status = "panicked" => ~PrefixBalanced(Prefix(tb.input, tb.i))
    /\ tb.status = "returned" => /\ PrefixBalanced(tb.input)
                                 /\ NumDurations(tb.st.tree) = NumEnd(tb.input)

\* a forest returned from a log with a scope left open, whose node holds no
\* duration
C10_Witness ==
    /\ tb.status = "returned"
    /\ NumStart(tb.input) > NumEnd(tb.input)
    /\ \E p \in DOMAIN tb.st.tree : tb.st.tree[p].measures = <<>>

\* ------------------------------------------------- vocabulary of reports
\* a call of print_timings_to has come back, with Ok or with Err
Rendered == rp.ret \in {"Ok", "Err"}

\* the forest of the i-th log of the shared list
TreeOf(i) == into_tree(gmeasures[i].events).tree

\* the key under which the node at path p of a forest is reported
NodeKey(tree, p) ==
    IF deep THEN FormattedName(tree[p].name, tree[p].depth) ELSE tree[p].name

\* the tree positions of the i-th log reported under key
Positions(i, key) == {p \in DOMAIN TreeOf(i) : NodeKey(TreeOf(i), p) = key}

\* every key reported from the shared list
AllKeys ==
    UNION {{NodeKey(TreeOf(i), p) : p \in DOMAIN TreeOf(i)} : i \in DOMAIN gmeasures}

\* the record of the table made for key
RecordOf(key) ==
    rp.timings[CHOOSE j \in DOMAIN rp.timings : TimingKey(rp.timings[j]) = key]

RECURSIVE SumOfSet(_, _, _)
SumOfSet(tree, paths, what) ==
    IF paths = {} THEN 0
    ELSE LET p == CHOOSE q \in paths : TRUE
             v == IF what = "calls" THEN Len(tree[p].measures)
                  ELSE SeqSum(tree[p].measures)
         IN  v + SumOfSet(tree, paths \ {p}, what)

\* calls ("calls") or summed duration ("time") of key in the i-th log
InLog(i, key, what) == SumOfSet(TreeOf(i), Positions(i, key), what)

\* the same, added up over the logs of the list
InList(key, what) == SeqSum([i \in DOMAIN gmeasures |-> InLog(i, key, what)])

\* the largest per-log summed duration of key
MaxInList(key) ==
    LET sums == {InLog(i, key, "time") : i \in DOMAIN gmeasures}
    IN  CHOOSE m \in sums : \A x \in sums : x <= m

\* the logs in which key occurs
LogsWith(key) == {i \in DOMAIN gmeasures : Positions(i, key) # {}}

\* key occurs at no more than one tree position of any log
OnePositionPerLog(key) ==
    \A i \in DOMAIN gmeasures : Cardinality(Positions(i, key)) <= 1

\* exact comparison of two percentages; NaN compares false with everything
PctGeq(p, q) ==
    /\ p.kind # "NaN" /\ q.kind # "NaN"
    /\ \/ p.kind = "inf"
       \/ p.kind = "num" /\ q.kind = "num" /\ p.num * q.den >= q.num * p.den

\* ------------------------------------------------------------------- C11
\* the list holds one log, of one thread that recurses into one scope name:
\* k Starts of that name, then k Ends
IsRecursion ==
    /\ Len(gmeasures) = 1
    /\ LET ev == gmeasures[1].events
           k == Len(ev) \div 2
       IN  /\ \A i \in 1..k : ev[i].ty = "Start" /\ ev[i].name = ev[1].name
           /\ \A i \in k + 1..2 * k : ev[i].ty = "End"

\* C11: a thread recursing k times into one scope name is reported, without
\* deep-hierarchy, as one record of that name with calls = k, and with
\* deep-hierarchy as k records, one per depth, with calls = 1 each.
C11_RecursionCollapses ==
    (Rendered /\ IsRecursion) =>
        LET k == Len(gmeasures[1].events) \div 2
            name == gmeasures[1].events[1].name
        IN  IF deep
            THEN /\ Len(rp.timings) = k
                 /\ \A j \in 1..k :
                       /\ rp.timings[j].calls = 1
                       /\ rp.timings[j].formatted_name = FormattedName(name, j - 1)
            ELSE /\ Len(rp.timings) = 1
                 /\ rp.timings[1].calls = k
                 /\ rp.timings[1].name = name

\* a recursion three deep was reported as one record with three calls
C11_Witness ==
    /\ rp.ret = "Ok"
    /\ IsRecursion
    /\ ~deep
    /\ Len(gmeasures[1].events) = 6
    /\ rp.timings[1].calls = 3

\* ------------------------------------------------------------------- C12
\* C12: a key recorded at one tree position of each log it occurs in is
\* reported with calls = the sum of its calls over the logs, total_cpu = the
\* sum of its durations over the logs, and total_real = the largest per-log
\* sum of its durations, wherever in the list the logs stand.
C12_CrossThreadMerge ==
    Rendered =>
        \A key \in AllKeys :
            OnePositionPerLog(key) =>
                /\ RecordOf(key).calls = InList(key, "calls")
                /\ RecordOf(key).total_cpu = InList(key, "time")
                /\ RecordOf(key).total_real = MaxInList(key)

\* one key on three threads, its largest total on the second only
C12_Witness ==
    /\ rp.ret = "Ok"
    /\ Len(gmeasures) = 3
    /\ \E key \in AllKeys :
          /\ LogsWith(key) = {1, 2, 3}
          /\ InLog(2, key, "time") > InLog(1, key, "time")
          /\ InLog(2, key, "time") > InLog(3, key, "time")
          /\ RecordOf(key).calls = 3

\* ------------------------------------------------------------------- C13
\* no tree position of key lies below another one: the scope does not
\* recurse, so its durations do not overlap in time
NotNested(key) ==
    \A i \in DOMAIN gmeasures :
        \A p, q \in Positions(i, key) :
            (p # q /\ Len(p) <= Len(q)) => SubSeq(q, 1, Len(p)) # p

\* C13: every record's total_cpu is the sum of all durations recorded under
\* its key, in all logs and at all tree positions (under different parents)
\* of a log.
C13_CpuIsSumOfDurations ==
    Rendered =>
        \A key \in AllKeys :
            NotNested(key) => RecordOf(key).total_cpu = InList(key, "time")

\* ------------------------------------------------------------------- C14
\* C14: every record's average is its total_cpu divided by its calls,
\* whatever the number of threads and the calls of each (stated for the keys
\* that sit at one tree position per log, whose total_cpu is the sum of
\* their durations).
C14_AverageIsCpuOverCalls ==
    Rendered =>
        \A key \in AllKeys :
            (OnePositionPerLog(key) /\ RecordOf(key).calls > 0) =>
                RecordOf(key).average = RecordOf(key).total_cpu \div RecordOf(key).calls

\* ------------------------------------------------------------------- C15
\* the time a log spends in its outermost scopes, read off the log itself:
\* from each Start met with no scope open to the End that closes it
RECURSIVE RootTimeFrom(_, _, _, _)
RootTimeFrom(log, i, open, since) ==
    IF i > Len(log) THEN 0
    ELSE IF log[i].ty = "Start"
    THEN RootTimeFrom(log, i + 1, open + 1, IF open = 0 THEN log[i].time ELSE since)
    ELSE (IF open = 1 THEN log[i].time - since ELSE 0)
         + RootTimeFrom(log, i + 1, open - 1, since)

RootTime(i) == RootTimeFrom(gmeasures[i].events, 1, 0, 0)

MaxRootTime ==
    LET all == {RootTime(i) : i \in DOMAIN gmeasures}
    IN  CHOOSE m \in all : \A x \in all : x <= m

MaxElapsed ==
    LET all == {gmeasures[i].elapsed : i \in DOMAIN gmeasures}
    IN  CHOOSE m \in all : \A x \in all : x <= m

C16_ZeroTotalGives100 ==
    Rendered =>
        /\ \A j \in DOMAIN rp.timings : rp.timings[j].percent_app.kind = "num"
        /\ (rp.total_app = 0 /\ Len(rp.timings) = 1)
              => PctGeq(rp.timings[1].percent_app, Pct100)
                 /\ PctGeq(Pct100, rp.timings[1].percent_app)

\* ------------------------------------------------------------------- C17
\* p is strictly greater than q; NaN compares false with everything
PctGt(p, q) ==
    /\ p.kind # "NaN" /\ q.kind # "NaN"
    /\ \/ p.kind = "inf" /\ q.kind = "num"
       \/ p.kind = "num" /\ q.kind = "num" /\ p.num * q.den > q.num * p.den

\* every tree position of key kc, in every log, is a direct child of a
\* position of key kp
AlwaysChildOf(kc, kp) ==
    \A i \in DOMAIN gmeasures :
        \A q \in Positions(i, kc) :
            Len(q) >= 2 /\ Front(q) \in Positions(i, kp)

RootKeys(i) ==
    {NodeKey(TreeOf(i), p) : p \in ChildPaths(TreeOf(i), <<>>)}

\* the total_real of the records of a set of keys, added up
RECURSIVE RealOfKeys(_)
RealOfKeys(keys) ==
    IF keys = {} THEN 0
    ELSE LET k == CHOOSE x \in keys : TRUE
         IN  RecordOf(k).total_real + RealOfKeys(keys \ {k})

\* the root keys of the i-th log occur nowhere else in the list: in no other
\* log and at no other tree position
RootsOnlyHere(i) ==
    \A k \in RootKeys(i) :
        LogsWith(k) = {i} /\ Cardinality(Positions(i, k)) = 1

\* C18 as stated (for reports with a total application time other than 0,
\* and in exact arithmetic): for every log, the percent_app of the records
\* of its root scopes add up to at most 100, that is, their total_real add
\* up to at most the total application time.
C18_RootSharesWithin100 ==
    (Rendered /\ rp.total_app # 0) =>
        \A i \in DOMAIN gmeasures : RealOfKeys(RootKeys(i)) <= rp.total_app

\* C18, amended: for a log whose root keys occur nowhere else in the list,
\* the total_real of the records of its root scopes add up to the time the
\* log spends in its root scopes, which is at most the total application
\* time.
C18_OwnRootsWithinTotal ==
    Rendered =>
        \A i \in DOMAIN gmeasures :
            RootsOnlyHere(i) =>
                /\ RealOfKeys(RootKeys(i)) = RootTime(i)
                /\ RealOfKeys(RootKeys(i)) <= rp.total_app

\* a log with two root scopes, both of them taking time and met nowhere
\* else, whose records share the whole of the total application time
C18_Witness ==
    /\ rp.ret = "Ok"
    /\ \E i \in DOMAIN gmeasures :
          /\ RootsOnlyHere(i)
          /\ Cardinality(RootKeys(i)) = 2
          /\ \A k \in RootKeys(i) : RecordOf(k).total_real > 0
          /\ RealOfKeys(RootKeys(i)) = rp.total_app

\* ------------------------------------------------------------------- C19
\* C19: a call of print_timings_to leaves the shared list and the thread
\* count as they were, and two calls in a row with nothing between them
\* write the same table.
C19_RenderIdempotent ==
    [][rp'.calls # rp.calls =>
          /\ gmeasures' = gmeasures
          /\ threads' = threads
          /\ (Len(out') = 2 /\ Len(out) = 1) => out'[2] = out[1]]_vars

\* two tables were written from a list of two logs or more, with several rows
C19_Witness ==
    /\ rp.calls = 2
    /\ Len(out) = 2
    /\ Len(gmeasures) >= 2
    /\ Len(rp.timings) >= 2

\* ------------------------------------------------------------------- C20
\* C20: a call of print_timings_to whose write fails returns Err, and
\* leaves the shared list, the thread count and the locks as they were.
C20_SinkFailureIsReturned ==
    [][(rp'.calls # rp.calls /\ ~rp'.sink_ok) =>
          /\ rp'.ret = "Err"
          /\ proc' = proc
          /\ gmeasures' = gmeasures
          /\ threads' = threads
          /\ poisoned' = poisoned
          /\ mutex' = mutex]_vars

\* a table was written, then a second write failed and Err came back, the
\* list still holding its logs
C20_Witness ==
    /\ rp.calls = 2
    /\ rp.ret = "Err"
    /\ ~rp.sink_ok
    /\ Len(out) = 1
    /\ Len(gmeasures) >= 2

\* ------------------------------------------------------------------- C21
\* thread t enters or leaves a scope in this step: its live guards change
ScopeStep(t) == guards'[t] # guards[t]

\* C21: a scope entry or exit of thread t appends one measure to t's own
\* log and changes no other thread's log, nor the shared list, nor the
\* thread count, and takes no shared lock; the thread count goes up only
\* when a thread's THREAD_PROFILER is created, on its first access.
C21_ScopeStepIsLocal ==
    [][/\ \A t \in Threads :
             ScopeStep(t) =>
                 /\ Len(tmeasures'[t]) = Len(tmeasures[t]) + 1
                 /\ SubSeq(tmeasures'[t], 1, Len(tmeasures[t])) = tmeasures[t]
                 /\ \A u \in Threads \ {t} : tmeasures'[u] = tmeasures[u]
                 /\ gmeasures' = gmeasures
                 /\ threads' = threads
                 /\ mutex' = mutex
                 /\ poisoned' = poisoned
       /\ (threads' # threads /\ decs' = decs) =>
             \E t \in Threads :
                 /\ tls[t] = "uninit" /\ tls'[t] = "alive"
                 /\ regs'[t] = regs[t] + 1
                 /\ mutex = {t}]_vars

\* the reporting thread has entered two scopes and left one, a worker has
\* entered and left one, each registered once, nothing flushed yet
C21_Witness ==
    /\ Len(tmeasures[Main]) >= 3
    /\ \E w \in Workers : Len(tmeasures[w]) = 2 /\ regs[w] = 1
    /\ regs[Main] = 1
    /\ threads = 2
    /\ gmeasures = <<>>

\* ------------------------------------------------------------------- C22
\* the reporting thread comes to position p of ProfiDrop::drop in this step
Reaches(p) == pc'[Main] = p /\ pc[Main] # p

\* C22: ProfiDrop::drop runs its steps in order.  block_until_exited begins
\* only once the reporting thread's log is in the shared list and, with
\* rayon, every pool thread has run the broadcast closure; the table is
\* written only after block_until_exited has read a count of 1 or less; the
\* ondrop closure runs only after the table has been written.
C22_ReportStepsInOrder ==
    [][/\ Reaches("block") =>
             /\ pc[Main] = IF rayon THEN "broadcast" ELSE "drop_threads"
             /\ tmeasures'[Main] = <<>>
             /\ Len(gmeasures') >= 1 /\ gmeasures'[1].tid = Main
             /\ bcast' = {}
       /\ Reaches("broadcast") => pc[Main] = "drop_threads"
       /\ Reaches("check") => pc[Main] \in {"block", "cv_wait"}
       /\ Reaches("cv_wait") => pc[Main] = "check"
       /\ Reaches("print") =>
             /\ pc[Main] = "check"
             /\ ~StillActive
             /\ out' = out
       /\ Reaches("hook") =>
             /\ pc[Main] = "print"
             /\ Len(out') = Len(out) + 1
       /\ pc[Main] = "hook" => out' = out]_vars

\* with rayon, a pool thread has run the broadcast closure, the count came
\* down to 1, the table is written and the ondrop closure is about to run
C22_Witness ==
    /\ rayon
    /\ pc[Main] = "hook"
    /\ Len(out) = 1
    /\ \E w \in pool : decs[w] = 1
    /\ threads = 1

\* ------------------------------------------------------------------- C23
\* C23: with the rayon feature, once the broadcast of the first report has
\* returned and the threads outside the pool have ended, every registered
\* thread has given its registration back: the count is 1, which lets
\* block_until_exited return.
C23_BroadcastBringsQuiescence ==
    (/\ rayon
     /\ reports = 1
     /\ pc[Main] \in {"block", "check", "cv_wait"}
     /\ \A w \in Workers \ pool : pc[w] = "done")
        => threads = 1

\* ------------------------------------------------------------------- C24
\* the guards thread t has created so far
Created(t) == MaxGuardsSolo - budget[t]

\* C24: a guard's creation appends one Start, stamped now, and nothing else;
\* its release, by Drop or by into_inner alike, appends one End, stamped
\* now, and nothing else; so the log holds one Start per guard created and
\* one End per guard released.
C24_OneStartOneEndPerGuard ==
    [][/\ Len(guards'[Solo]) > Len(guards[Solo]) =>
             \E name \in Names :
                 tmeasures'[Solo] = Append(tmeasures[Solo], StartMeasure(name, now))
       /\ Len(guards'[Solo]) < Len(guards[Solo]) =>
             tmeasures'[Solo] = Append(tmeasures[Solo], EndMeasure(now))
       /\ NumStart(tmeasures'[Solo]) = Created(Solo)'
       /\ NumEnd(tmeasures'[Solo]) = Created(Solo)' - Len(guards'[Solo])]_vars

\* three guards created, two of them released, one still alive
C24_Witness ==
    /\ Created(Solo) = 3
    /\ Len(guards[Solo]) = 1
    /\ NumStart(tmeasures[Solo]) = 3
    /\ NumEnd(tmeasures[Solo]) = 2

\* ------------------------------------------------------------------- C25
\* no thread has used its THREAD_PROFILER yet: no scope has been entered
NoneRegistered == \A t \in Threads : regs[t] = 0

\* C25 as stated: the thread count is 1 before any scope has been entered.
C25_CountStartsAtOne == NoneRegistered => threads = 1

\* thread t uses its THREAD_PROFILER for the first time in this step
FirstUse(t) == tls[t] = "uninit" /\ tls'[t] = "alive"

\* C25, amended: the thread count is 0 until a thread uses its
\* THREAD_PROFILER.  The first use by any thread, the reporting thread
\* included, adds one (from usize::MAX, wrapping to 0); a scope entry or exit
\* of a registered thread leaves the count alone; and the count is changed
\* by no thread that has not used its THREAD_PROFILER.
C25_CountedOnFirstUse ==
    [][/\ NoneRegistered => threads = 0
       /\ \A t \in Threads :
             /\ FirstUse(t) =>
                   /\ regs[t] = 0
                   /\ threads' = IF threads = UsizeMax THEN 0 ELSE threads + 1
             /\ ScopeStep(t) => tls[t] = "alive" /\ threads' = threads
             /\ decs'[t] # decs[t] => regs[t] >= 1
       /\ threads' # threads =>
             \E t \in Threads : FirstUse(t) \/ decs'[t] # decs[t]]_vars

\* the reporting thread and a worker have registered, the worker after the
\* reporting thread, and a pool thread that never entered a scope has been
\* counted and taken off again by the broadcast
C25_Witness ==
    /\ regs[Main] = 1
    /\ \E w \in pool :
          /\ regs[w] = 1 /\ decs[w] = 1
          /\ budget[w] = MaxGuards
    /\ \E w \in Workers \ pool : regs[w] = 1 /\ Len(tmeasures[w]) >= 1
    /\ threads = 2

\* ------------------------------------------------------------------- C26
\* the measures into_tree has read so far
Seen == Prefix(tb.input, tb.i)

\* the first Start measure of the log, counted among its Start measures,
\* that enters the scope with this chain of names
FirstEnter(log, names) ==
    LET es == EnterStacks(log, 1, <<>>, <<>>)
        ks == {k \in DOMAIN es : es[k] = names}
    IN  CHOOSE k \in ks : \A j \in ks : k <= j

\* two nodes stored in the same IndexMap
Siblings(p, q) == Len(p) = Len(q) /\ Front(p) = Front(q)

\* C26: at every point of into_tree's loop, on any log: the nodes are those
\* of the name chains entered so far, one node per (parent, name); each
\* IndexMap is filled without gaps in the order of the first Start of its
\* entries; roots have depth 0 and every other node its parent's depth
\* plus 1; and a Start leaves current_path at the node of the name it
\* carries, below the node current_path addressed before.
C26_OneNodePerParentAndName ==
    LET tree == tb.st.tree
        es == EnterStacks(Seen, 1, <<>>, <<>>)
    IN  /\ \A p \in DOMAIN tree :
              /\ Len(p) >= 1
              /\ Len(p) > 1 => Front(p) \in DOMAIN tree
              /\ Last(p) \in 0..MapLen(tree, Front(p)) - 1
              /\ tree[p].depth = Len(p) - 1
              /\ \E k \in DOMAIN es : es[k] = NamePath(tree, p)
        /\ \A k \in DOMAIN es : \E p \in DOMAIN tree : NamePath(tree, p) = es[k]
        /\ \A p, q \in DOMAIN tree :
              Siblings(p, q) =>
                  /\ tree[p].name = tree[q].name => p = q
                  /\ Last(p) < Last(q) =>
                        FirstEnter(Seen, NamePath(tree, p))
                           < FirstEnter(Seen, NamePath(tree, q))
        /\ (tb.i >= 1 /\ tb.input[tb.i].ty = "Start") =>
              /\ tb.st.current_path \in DOMAIN tree
              /\ NamePath(tree, tb.st.current_path) = es[Len(es)]

\* a log that enters root scope a twice and then root scope b was read:
\* two root nodes, a before b, no third one
C26_Witness ==
    /\ tb.i = 5
    /\ tb.status = "loop"
    /\ DOMAIN tb.st.tree = {<<0>>, <<1>>}
    /\ TimesEntered(Seen, <<tb.st.tree[<<0>>].name>>) = 2
    /\ tb.st.tree[<<0>>].name # tb.st.tree[<<1>>].name

\* ------------------------------------------------------------------- C27
\* into_tree reads an End measure of a balanced log in this step
EndStep ==
    /\ Balanced(tb.input)
    /\ tb.status = "loop"
    /\ tb'.i = tb.i + 1
    /\ tb.input[tb.i + 1].ty = "End"

\* the names of the scopes open after the measures read so far
OpenNames == [j \in DOMAIN OpenStarts(Seen) |-> Seen[OpenStarts(Seen)[j]].name]

\* C27: reading an End measure of a balanced log appends one duration, the
\* End's time minus the time of the youngest Start still open, to the node
\* current_path addresses, which is the node that Start entered; it then
\* drops the last index of current_path; no node is added and no other
\* node changes.
C27_EndAppendsOneDuration ==
    [][EndStep =>
          LET p == tb.st.current_path
              start == Seen[Last(OpenStarts(Seen))]
              end == tb.input[tb.i + 1]
          IN  /\ p \in DOMAIN tb.st.tree
              /\ NamePath(tb.st.tree, p) = OpenNames
              /\ DOMAIN tb'.st.tree = DOMAIN tb.st.tree
              /\ tb'.st.tree[p] =
                    [tb.st.tree[p] EXCEPT !.measures = Append(@, end.time - start.time)]
              /\ \A q \in DOMAIN tb.st.tree \ {p} : tb'.st.tree[q] = tb.st.tree[q]
              /\ tb'.st.current_path = Front(p)
              /\ tb'.status = "loop"]_vars

\* an inner scope entered after the outer one and left later still: its
\* node holds the one duration, counted from its own Start
C27_Witness ==
    /\ Balanced(tb.input)
    /\ tb.i = 3
    /\ tb.input[1].ty = "Start" /\ tb.input[2].ty = "Start" /\ tb.input[3].ty = "End"
    /\ tb.input[1].time < tb.input[2].time
    /\ tb.input[2].time < tb.input[3].time
    /\ tb.st.tree[<<0, 0>>].measures = <<tb.input[3].time - tb.input[2].time>>
    /\ tb.st.tree[<<0>>].measures = <<>>
    /\ tb.st.current_path = <<0>>

\* ------------------------------------------------------------------- C28
\* the names a log enters, and the chains of names (outermost first) it
\* enters scopes with
NamesIn(log) == {log[j].name : j \in {k \in DOMAIN log : log[k].ty = "Start"}}

NameChains(log) ==
    LET es == EnterStacks(log, 1, <<>>, <<>>)
    IN  {es[k] : k \in DOMAIN es}

\* C28 as stated: without deep-hierarchy the forest into_tree builds from a
\* log has no more nodes than the log has distinct names.
C28_ForestBoundedByNames ==
    (Rendered /\ ~deep) =>
        \A i \in DOMAIN gmeasures :
            Cardinality(DOMAIN TreeOf(i)) <= Cardinality(NamesIn(gmeasures[i].events))

\* C28, amended: with or without deep-hierarchy the forest has one node per
\* chain of names entered, so a scope entered below itself gets a node one
\* level deeper each time; it is the table that, without deep-hierarchy,
\* has one record per distinct name.
C28_RecordsBoundedByNames ==
    Rendered =>
        /\ \A i \in DOMAIN gmeasures :
              /\ Cardinality(DOMAIN TreeOf(i))
                    = Cardinality(NameChains(gmeasures[i].events))
              /\ \A p \in DOMAIN TreeOf(i) : Len(TreeOf(i)[p].measures) >= 1
        /\ ~deep =>
              Len(rp.timings)
                 = Cardinality(UNION {NamesIn(gmeasures[i].events) : i \in DOMAIN gmeasures})

\* a scope that comes back below another one: three nodes, one under the
\* other, and two records
C28_Witness ==
    /\ rp.ret = "Ok"
    /\ ~deep
    /\ Len(gmeasures) = 1
    /\ DOMAIN TreeOf(1) = {<<0>>, <<0, 0>>, <<0, 0, 0>>}
    /\ TreeOf(1)[<<0>>].name = TreeOf(1)[<<0, 0, 0>>].name
    /\ Len(rp.timings) = 2

\* ------------------------------------------------------------------- C29
\* C29: every record's total_real is the largest, over the logs, of the
\* log's summed durations of the record's key at all its tree positions,
\* wherever the logs stand in the list (stated for the keys whose positions
\* in a log do not lie below one another, whose durations do not overlap).
C29_RealIsMaxOfThreadSums ==
    Rendered =>
        \A key \in AllKeys :
            NotNested(key) => RecordOf(key).total_real = MaxInList(key)

\* ------------------------------------------------------------------- C30
\* the Start measures of the list that carry this name, and all of them
RECURSIVE StartsInList(_, _)
StartsInList(i, names) ==
    IF i > Len(gmeasures) THEN 0
    ELSE LET ev == gmeasures[i].events
         IN  Cardinality({k \in DOMAIN ev : ev[k].ty = "Start" /\ ev[k].name \in names})
                + StartsInList(i + 1, names)

\* C30: without deep-hierarchy, each record's calls is the number of Start
\* measures of its name in all logs of the list, at whatever depth, and the
\* calls of all records add up to the number of Start measures in the list.
C30_CallsCountStarts ==
    (Rendered /\ ~deep) =>
        /\ \A j \in DOMAIN rp.timings :
              rp.timings[j].calls = StartsInList(1, {rp.timings[j].name})
        /\ SeqSum([j \in DOMAIN rp.timings |-> rp.timings[j].calls])
              = StartsInList(1, Names)

\* a name entered at two depths on the first thread and once on a second
\* thread, reported with three calls
C30_Witness ==
    /\ rp.ret = "Ok"
    /\ ~deep
    /\ Len(gmeasures) = 2
    /\ \E key \in AllKeys :
          /\ Cardinality(Positions(1, key)) = 2
          /\ LogsWith(key) = {1, 2}
          /\ RecordOf(key).calls = 3

\* ------------------------------------------------------------------- C31
\* path p comes before path q when a forest is walked in pre-order: p is
\* an ancestor of q, or p turns to an earlier entry where they part
PreOrderBefore(p, q) ==
    \/ Len(p) < Len(q) /\ SubSeq(q, 1, Len(p)) = p
    \/ \E k \in 1..Len(p) :
          /\ k <= Len(q)
          /\ SubSeq(p, 1, k - 1) = SubSeq(q, 1, k - 1)
          /\ p[k] < q[k]

\* the first log of the list that holds key, and the first tree position
\* of that log, in pre-order, that holds it
FirstLog(key) == CHOOSE i \in LogsWith(key) : \A j \in LogsWith(key) : i <= j

FirstPosition(key) ==
    LET ps == Positions(FirstLog(key), key)
    IN  CHOOSE p \in ps : \A q \in ps \ {p} : PreOrderBefore(p, q)

\* key k1 is met before key k2 when the logs are visited in list order and
\* each forest in pre-order
MetBefore(k1, k2) ==
    \/ FirstLog(k1) < FirstLog(k2)
    \/ /\ FirstLog(k1) = FirstLog(k2)
       /\ PreOrderBefore(FirstPosition(k1), FirstPosition(k2))

\* C31: the table holds one record per key of the list, in the order in
\* which the keys are first met when the logs are visited in list order and
\* each forest is walked in pre-order; a key met again keeps its place.
C31_RecordsInFirstSeenOrder ==
    Rendered =>
        /\ {TimingKey(rp.timings[j]) : j \in DOMAIN rp.timings} = AllKeys
        /\ \A j, k \in DOMAIN rp.timings :
              j < k => MetBefore(TimingKey(rp.timings[j]), TimingKey(rp.timings[k]))

\* the second log enters first a key the table does not hold yet and,
\* below it, the key of the first record: that record stays first
C31_Witness ==
    /\ rp.ret = "Ok"
    /\ Len(gmeasures) = 2
    /\ Len(rp.timings) = 2
    /\ <<0, 0>> \in DOMAIN TreeOf(2)
    /\ NodeKey(TreeOf(2), <<0>>) = TimingKey(rp.timings[2])
    /\ NodeKey(TreeOf(2), <<0, 0>>) = TimingKey(rp.timings[1])
    /\ rp.timings[1].calls = 2

\* ------------------------------------------------------------------- C32
\* C32: under deep-hierarchy two nodes at different depths, whatever their
\* names, get different keys and stay two records of the map.
C32_KeySeparatesDepths ==
    (fmt.status = "done" /\ deep /\ fmt.a.depth # fmt.b.depth)
        => Len(fmt.timings) = 2

\* two nodes of one name at different depths stay two records under
\* deep-hierarchy
C32_SameNameSeparatesDepths ==
    (fmt.status = "done" /\ deep /\ fmt.a.depth # fmt.b.depth
                         /\ fmt.a.name = fmt.b.name)
        => Len(fmt.timings) = 2

\* ------------------------------------------------------------------- C33
\* a registry operation gets its lock: a thread becomes the holder of the
\* `threads` mutex (register, finalize, await_quiescence), or the shared
\* list is written (finalize) or rendered under the `measures` lock
LockAcquired ==
    \/ mutex' # {} /\ mutex' # mutex
    \/ gmeasures' # gmeasures
    \/ out' # out

\* C33: once a panic has poisoned a lock of the registry, no later registry
\* operation of any thread proceeds; each fails on its lock acquisition.
C33_PoisonStopsEveryOperation ==
    [][poisoned # {} => ~LockAcquired]_vars

\* a poisoned lock is never acquired again: once the `threads` mutex is
\* poisoned no thread becomes its holder, and once the `measures` lock is
\* poisoned the shared list is neither written nor rendered
C33_PoisonStopsThatLock ==
    [][/\ "threads" \in poisoned => ~(mutex' # {} /\ mutex' # mutex)
       /\ "measures" \in poisoned => (gmeasures' = gmeasures /\ out' = out)]_vars

\* the flush of the pool thread panicked holding the `measures` lock, and
\* a direct print of the spawned thread then failed on the poisoned lock
\* (the list itself is well formed), while the `threads` mutex stayed sound
C33_Witness ==
    /\ poisoned = {"measures"}
    /\ rp.calls = 1
    /\ rp.ret = "panic"
    /\ rp.by \notin pool \cup {Main}
    /\ pc[rp.by] = "panicked"
    /\ ~Aggregate(gmeasures).panicked

\* ------------------------------------------------------------------- C34
\* C34: a flushed log is immutable: every step keeps each entry of the
\* shared list as it is and in its order; a flush only puts a new entry in
\* front of the entries or behind them.
C34_FlushedLogsAreKept ==
    [][/\ Len(gmeasures') >= Len(gmeasures)
       /\ \E k \in 0..(Len(gmeasures') - Len(gmeasures)) :
             \A i \in DOMAIN gmeasures : gmeasures'[i + k] = gmeasures[i]]_vars

\* the log flushed for the first report is still in the list, behind the
\* log flushed for the second one, after both renderings
C34_Witness ==
    /\ Len(gmeasures) = 2
    /\ Len(out) = 2
    /\ out[1] = SubSeq(gmeasures, 2, 2)
    /\ out[2] = gmeasures

\* ------------------------------------------------------------------- C35
\* the timestamps of a log never decrease
Monotone(log) == \A i \in 1..(Len(log) - 1) : log[i].time <= log[i + 1].time

WellFormedList ==
    \A i \in DOMAIN gmeasures :
        Balanced(gmeasures[i].events) /\ Monotone(gmeasures[i].events)

\* C35: for balanced logs with non-decreasing timestamps no record's
\* real_time_total exceeds the total application time, and so no
\* percent_app exceeds 100.
C35_RealWithinTotal ==
    (Rendered /\ WellFormedList) =>
        \A j \in DOMAIN rp.timings :
            /\ rp.timings[j].total_real <= rp.total_app
            /\ ~PctGt(rp.timings[j].percent_app, Pct100)

\* two logs: a record at exactly 100 percent whose CPU time, summed over
\* the logs, is above the total application time, and a record below 100
C35_Witness ==
    /\ rp.ret = "Ok"
    /\ WellFormedList
    /\ Len(gmeasures) = 2
    /\ \E j, k \in DOMAIN rp.timings :
          /\ rp.timings[j].total_real = rp.total_app
          /\ rp.timings[j].total_cpu > rp.total_app
          /\ PctGeq(rp.timings[j].percent_app, Pct100)
          /\ rp.timings[k].total_real > 0
          /\ rp.timings[k].total_real < rp.total_app

\* ------------------------------------------------------------------- C36
\* a direct print operation returns or panics in this step
DirectStep == rp'.calls = rp.calls + 1

\* the scope names with a Start measure in a flushed log
FlushedNames ==
    UNION {{gmeasures[i].events[j].name :
               j \in {n \in DOMAIN gmeasures[i].events :
                         gmeasures[i].events[n].ty = "Start"}} :
           i \in DOMAIN gmeasures}

\* C36: a direct print operation takes one step whatever the thread count
\* is, finalizes no thread (thread count, thread-local profilers, unflushed
\* logs and the shared list stay as they are), and its records are those of
\* the flushed logs only.
C36_DirectPrintReportsFlushedOnly ==
    [][DirectStep =>
         /\ threads' = threads
         /\ mutex' = mutex
         /\ tls' = tls
         /\ decs' = decs
         /\ tmeasures' = tmeasures
         /\ gmeasures' = gmeasures
         /\ woken' = woken
         /\ pc'[rp'.by] \in {pc[rp'.by], "panicked"}
         /\ rp'.ret \in {"Ok", "Err"} =>
               /\ {rp'.timings[j].name : j \in DOMAIN rp'.timings} = FlushedNames
               /\ rp'.ret = "Ok" => out' = Append(out, create_table(rp'.timings))]_vars

\* a spawned thread printed while the reporting thread and the pool thread
\* were still registered: the log of the reporting thread, flushed before,
\* is reported, the caller's own scope, not flushed, is not
C36_Witness ==
    /\ rp.calls = 1
    /\ rp.ret = "Ok"
    /\ rp.by # Main
    /\ rp.own # <<>>
    /\ tmeasures[rp.by] = rp.own
    /\ threads > 1
    /\ gmeasures # <<>>
    /\ rp.timings # <<>>
    /\ \A j \in DOMAIN rp.timings : rp.timings[j].name # rp.own[1].name

\* ------------------------------------------------------------------- C37
\* C37: while no prefix of the measures read has more Ends than Starts, the
\* builder has not failed, the path stack and the starts stack both hold
\* one entry per open scope, every index on the path addresses an existing
\* node (get_current finds nothing only for the empty path), and after a
\* balanced sequence both stacks are empty.
C37_StacksInStep ==
    PrefixBalanced(Seen) =>
        LET st == tb.st
            n == Len(st.current_path)
        IN  /\ ~st.panicked
            /\ n = Len(st.start_times)
            /\ n = NumStart(Seen) - NumEnd(Seen)
            /\ \A k \in 1..n : SubSeq(st.current_path, 1, k) \in DOMAIN st.tree
            /\ get_current(st.current_path, st.tree) = None <=> n = 0
            /\ Balanced(Seen) => st.current_path = <<>> /\ st.start_times = <<>>

\* a balanced sequence that went two scopes deep has been read to its end:
\* both stacks are empty
C37_Witness ==
    /\ tb.status = "returned"
    /\ Balanced(tb.input)
    /\ <<0, 0>> \in DOMAIN tb.st.tree
    /\ tb.st.current_path = <<>>
    /\ tb.st.start_times = <<>>

\* two scopes are open, the inner one below the outer one
C37_WitnessOpen ==
    /\ tb.status = "loop"
    /\ PrefixBalanced(Seen)
    /\ tb.st.current_path = <<0, 0>>
    /\ Len(tb.st.start_times) = 2

====
